---- MODULE Spec2Model ----
(***************************************************************************)
(* Model of the risk-gated control loop of the trading bot:                *)
(*   backend/risk_manager.py  RiskManager                                  *)
(*   backend/executor.py      TradingExecutor                              *)
(*   backend/auto_agent.py    AutoAgent                                    *)
(*   backend/main.py          the request handlers that reach them         *)
(*                                                                         *)
(* Units.  Capital, equity and P&L are whole dollars.  A share count is    *)
(* held in 1e-4 shares (the code rounds crypto quantities to 4 decimals),  *)
(* a quoted price in whole dollars, so a position value shares * price is  *)
(* held in 1e-4 dollars.  A confidence is held in hundredths.  Stop-loss   *)
(* prices are held in cents (the code rounds them to 2 decimals).          *)
(* Arithmetic is exact: a Python float is modelled by the rational it      *)
(* stands for.                                                             *)
(***************************************************************************)
EXTENDS Integers, Sequences, FiniteSets, TLC

VARIABLES
    today,        \* datetime.now().date(), as a day number
    rm,           \* the RiskManager instance
    is_trading,   \* TradingExecutor.is_trading
    is_running,   \* AutoAgent.is_running
    w3,           \* WalletManager.w3 is set (wallet connected)
    positions,    \* the venue's positions: symbol -> position class
    trades,       \* Portfolio.trades, the ledger
    task,         \* the asyncio tasks running AutoAgent.start()
    agent_task,   \* main.agent_task: the task created last (0: none)
    dsc_changes,  \* history: changes of daily_start_capital on this date
    fnArgs,       \* arguments of a direct call of a RiskManager method
    fnRet         \* what that call returned (<<>> before the call)

(***************************************************************************)
(* Python values                                                           *)
(***************************************************************************)
None == <<>>
Some(v) == <<v>>
IsNone(x) == x = <<>>
Val(x) == x[1]

\* int(n / d): truncation toward zero, d > 0
Trunc(n, d) == IF n >= 0 THEN n \div d ELSE -((-n) \div d)

\* round(n / d): to the nearest integer, ties to the even one, d > 0
RoundHalfEven(n, d) ==
    LET a == IF n >= 0 THEN n ELSE -n
        q == a \div d
        r == a % d
        m == IF 2 * r < d THEN q
             ELSE IF 2 * r > d THEN q + 1
             ELSE IF q % 2 = 0 THEN q ELSE q + 1
    IN  IF n >= 0 THEN m ELSE -m

\* (num / den) * 100 > pct, for den # 0
PctGT(num, den, pct) ==
    IF den > 0 THEN num * 100 > pct * den ELSE num * 100 < pct * den

\* (num / den) * 100 >= pct, for den # 0
PctGE(num, den, pct) ==
    IF den > 0 THEN num * 100 >= pct * den ELSE num * 100 =< pct * den

Min(a, b) == IF a =< b THEN a ELSE b
Max(a, b) == IF a >= b THEN a ELSE b

(***************************************************************************)
(* Configuration defaults (RiskManager.__init__) and fixed thresholds      *)
(***************************************************************************)
INITIAL_CAPITAL == 10000
MAX_DAILY_LOSS_PCT == 2
MAX_POSITION_SIZE_PCT == 5
MAX_STOP_LOSS_PCT == 3
SHARE_SCALE == 10000

\* "/" in symbol or "USD" in symbol
FractionalSymbols == {"BTC/USD", "ETH/USD"}
IsFractional(symbol) == symbol \in FractionalSymbols

(***************************************************************************)
(* RiskManager                                                             *)
(***************************************************************************)
NewRiskManager(day) ==
    [ initial_capital       |-> INITIAL_CAPITAL,
      max_daily_loss_pct    |-> MAX_DAILY_LOSS_PCT,
      max_position_size_pct |-> MAX_POSITION_SIZE_PCT,
      max_stop_loss_pct     |-> MAX_STOP_LOSS_PCT,
      daily_start_capital   |-> None,
      daily_pnl             |-> 0,
      last_reset_date       |-> day,
      open_positions        |-> << >> ]

get_current_capital(r) ==
    IF ~IsNone(r.daily_start_capital)
    THEN Val(r.daily_start_capital) + r.daily_pnl
    ELSE r.initial_capital

\* reset_daily_limits without its date test
reset_daily_limits_undated(r, now) ==
    [r EXCEPT !.daily_start_capital = Some(get_current_capital(r)),
              !.daily_pnl = 0,
              !.last_reset_date = now]

\* reset_daily_limits re-basing on a new date without zeroing daily_pnl
reset_daily_limits_carrying(r, now) ==
    IF now > r.last_reset_date
    THEN [r EXCEPT !.daily_start_capital = Some(get_current_capital(r)),
                   !.last_reset_date = now]
    ELSE r

reset_daily_limits(r, now) ==
    IF now > r.last_reset_date
    THEN [r EXCEPT !.daily_start_capital = Some(get_current_capital(r)),
                   !.daily_pnl = 0,
                   !.last_reset_date = now]
    ELSE r

\* The Kelly fraction in 1/300: (b*p - q) / b with b = 3/2, p and q in
\* hundredths, is (3p - 2q) / 300.
kelly_raw(cc) == 3 * cc - 2 * (100 - cc)

KELLY_CAP == 75

\* kelly_fraction without max(0, min(.., 0.25))
kelly_fraction_unclamped(cc) == kelly_raw(cc)

kelly_fraction(cc) == Max(0, Min(kelly_raw(cc), KELLY_CAP))

\* calculate_position_size: shares in 1e-4 shares, value in 1e-4 dollars.
\* position_value is carried in 1/300 dollars (pv300).
calculate_position_size(r, symbol, cc, price) ==
    LET current_capital == get_current_capital(r)
        kelly == kelly_fraction(cc)
        max_position_value == current_capital * (3 * r.max_position_size_pct)
        kelly_position_value == current_capital * kelly
        pv300 == Min(kelly_position_value, max_position_value)
        shares == IF IsFractional(symbol)
                  THEN RoundHalfEven(pv300 * 100, 3 * price)
                  ELSE Trunc(pv300, 300 * price) * SHARE_SCALE
    IN  [ shares |-> shares,
          position_value |-> shares * price,
          kelly |-> kelly ]

\* calculate_stop_loss: entry and stop in cents, round(.., 2)
calculate_stop_loss(r, entry, side) ==
    IF side = "buy"
    THEN RoundHalfEven(entry * (100 - r.max_stop_loss_pct), 100)
    ELSE RoundHalfEven(entry * (100 + r.max_stop_loss_pct), 100)

\* can_trade after its reset_daily_limits(): the RiskManager after the call,
\* the exception raised ("none": it returned) and the pair returned.
can_trade_checked(r1) ==
    IF IsNone(r1.daily_start_capital)
    THEN [rm |-> r1, exc |-> "TypeError", allowed |-> FALSE, reason |-> ""]
    ELSE IF Val(r1.daily_start_capital) = 0
    THEN [rm |-> r1, exc |-> "ZeroDivisionError", allowed |-> FALSE, reason |-> ""]
    ELSE IF PctGE(Val(r1.daily_start_capital) - get_current_capital(r1),
                  Val(r1.daily_start_capital), r1.max_daily_loss_pct)
    THEN [rm |-> r1, exc |-> "none", allowed |-> FALSE,
          reason |-> "Daily loss limit reached"]
    ELSE [rm |-> r1, exc |-> "none", allowed |-> TRUE, reason |-> "Trading allowed"]

can_trade(r, now) == can_trade_checked(reset_daily_limits(r, now))

\* (position_value / current_capital) * 100 > max_pct, position_value in
\* 1e-4 dollars and current_capital in dollars, current_capital # 0
PositionPctGT(position_value, current_capital, max_pct) ==
    IF current_capital > 0
    THEN position_value > max_pct * current_capital * (SHARE_SCALE \div 100)
    ELSE position_value < max_pct * current_capital * (SHARE_SCALE \div 100)

\* The tests with the capital test made for a sell as well
validate_size_anyside(r, current_capital, position_value, side) ==
    IF side = "buy" /\ current_capital = 0
    THEN [rm |-> r, exc |-> "ZeroDivisionError", valid |-> FALSE, reason |-> ""]
    ELSE IF side = "buy" /\ PositionPctGT(position_value, current_capital,
                                         r.max_position_size_pct)
    THEN [rm |-> r, exc |-> "none", valid |-> FALSE,
          reason |-> "Position size exceeds limit"]
    ELSE IF position_value > current_capital * SHARE_SCALE
    THEN [rm |-> r, exc |-> "none", valid |-> FALSE, reason |-> "Insufficient capital"]
    ELSE [rm |-> r, exc |-> "none", valid |-> TRUE, reason |-> "Trade validated"]

\* The tests validate_trade makes once the gate is passed
validate_size(r, current_capital, position_value, side) ==
    IF side = "buy" /\ current_capital = 0
    THEN [rm |-> r, exc |-> "ZeroDivisionError", valid |-> FALSE, reason |-> ""]
    ELSE IF side = "buy" /\ PositionPctGT(position_value, current_capital,
                                         r.max_position_size_pct)
    THEN [rm |-> r, exc |-> "none", valid |-> FALSE,
          reason |-> "Position size exceeds limit"]
    ELSE IF side = "buy" /\ position_value > current_capital * SHARE_SCALE
    THEN [rm |-> r, exc |-> "none", valid |-> FALSE, reason |-> "Insufficient capital"]
    ELSE [rm |-> r, exc |-> "none", valid |-> TRUE, reason |-> "Trade validated"]

\* validate_trade from can_trade's outcome g on
validate_gated(g, position_value, side) ==
    IF g.exc # "none"
    THEN [rm |-> g.rm, exc |-> g.exc, valid |-> FALSE, reason |-> ""]
    ELSE IF ~g.allowed
    THEN [rm |-> g.rm, exc |-> "none", valid |-> FALSE, reason |-> g.reason]
    ELSE validate_size(g.rm, get_current_capital(g.rm), position_value, side)

\* validate_trade without its can_trade test
validate_trade_ungated(r, now, shares, price, side) ==
    validate_size(r, get_current_capital(r), shares * price, side)

validate_trade(r, now, shares, price, side) ==
    validate_gated(can_trade(r, now), shares * price, side)

\* A dict: a function on the keys present.
DictSet(d, k, v) == [x \in (DOMAIN d) \cup {k} |-> IF x = k THEN v ELSE d[x]]
DictDel(d, k) == [x \in (DOMAIN d) \ {k} |-> d[x]]

update_position(r, symbol, position_value) ==
    [r EXCEPT !.open_positions = DictSet(@, symbol, position_value)]

\* close_position without the removal from open_positions
rm_close_position_kept(r, symbol, pnl) ==
    [r EXCEPT !.daily_pnl = @ + pnl]

\* close_position assigning the pnl instead of adding it
rm_close_position_fresh(r, symbol, pnl) ==
    [r EXCEPT !.open_positions = DictDel(@, symbol),
              !.daily_pnl = pnl]

rm_close_position(r, symbol, pnl) ==
    [r EXCEPT !.open_positions = DictDel(@, symbol),
              !.daily_pnl = @ + pnl]

\* get_risk_metrics(live_positions, current_equity): either argument may be
\* None.  live_positions is a dict symbol -> market_value here (the code
\* builds it from the list).  Returns the RiskManager after the call and
\* the exception raised, if any.
set_daily_pnl(r, equity) ==
    [r EXCEPT !.daily_pnl = equity - Val(r.daily_start_capital)]

\* the sync with the live equity
sync_equity(r, now, current_equity) ==
    IF IsNone(current_equity) THEN r
    ELSE set_daily_pnl(
             reset_daily_limits(
                 IF IsNone(r.daily_start_capital)
                 THEN [r EXCEPT !.daily_start_capital = current_equity]
                 ELSE r,
                 now),
             Val(current_equity))

\* the sync with the live positions
sync_positions(r, live_positions) ==
    IF IsNone(live_positions) THEN r
    ELSE [r EXCEPT !.open_positions = Val(live_positions)]

\* the metrics: daily_loss_pct, the exposure, can_trade()
metrics_of(r2, current_capital, g) ==
    IF IsNone(r2.daily_start_capital)
    THEN [rm |-> r2, exc |-> "TypeError"]
    ELSE IF Val(r2.daily_start_capital) = 0
    THEN [rm |-> r2, exc |-> "ZeroDivisionError"]
    ELSE IF DOMAIN r2.open_positions # {} /\ current_capital = 0
    THEN [rm |-> r2, exc |-> "ZeroDivisionError"]
    ELSE [rm |-> g.rm, exc |-> g.exc]

metrics_synced(r1, now, live_positions) ==
    metrics_of(sync_positions(r1, live_positions), get_current_capital(r1),
               can_trade(sync_positions(r1, live_positions), now))

get_risk_metrics(r, now, live_positions, current_equity) ==
    metrics_synced(sync_equity(r, now, current_equity), now, live_positions)

(***************************************************************************)
(* The execution venue (Alpaca) and the ledger, as the code sees them      *)
(***************************************************************************)
WatchList == <<"BTC/USD", "ETH/USD">>
Symbols == {WatchList[i] : i \in DOMAIN WatchList}

\* A position of the venue: none, or held with its unrealized P&L.  The
\* three held classes stand for a position bought for 500 dollars.
PositionClasses == {"none", "flat", "loss", "gain"}

\* The account may also hold a position sold short for 500 dollars, which the
\* venue reports with a negative market_value; the program's own orders do
\* not open one here.
LiveClasses == PositionClasses \cup {"short"}
PosData(cls) ==
    CASE cls = "flat" -> [pnl |-> 0,    pnl_pct |-> 0,   market_value |-> 500 * SHARE_SCALE]
      [] cls = "loss" -> [pnl |-> -200, pnl_pct |-> -40, market_value |-> 300 * SHARE_SCALE]
      [] cls = "gain" -> [pnl |-> 100,  pnl_pct |-> 20,  market_value |-> 600 * SHARE_SCALE]
      [] cls = "short" -> [pnl |-> 0,   pnl_pct |-> 0,   market_value |-> -500 * SHARE_SCALE]

\* get_positions: the list of held symbols, [] when the call fails
get_positions(pos, ok) ==
    IF ok THEN SelectSeq(WatchList, LAMBDA s : pos[s] # "none") ELSE << >>

\* Portfolio.log_trade and Portfolio.close_trade on the ledger
log_trade(ledger, symbol) == Append(ledger, [symbol |-> symbol, status |-> "open"])

close_trade(ledger, symbol) ==
    LET open == {i \in DOMAIN ledger :
                    ledger[i].symbol = symbol /\ ledger[i].status = "open"}
    IN  IF open = {} THEN ledger
        ELSE LET last == CHOOSE i \in open : \A j \in open : j =< i
             IN  [ledger EXCEPT ![last].status = "closed"]

(***************************************************************************)
(* TradingExecutor                                                         *)
(***************************************************************************)
GateOf(g) == IF g.exc # "none" THEN "fault"
             ELSE IF g.allowed THEN "open" ELSE "closed"

SideOf(signal) == IF signal = "Buy" THEN "buy" ELSE "sell"

\* A return of execute_trade before validate_trade
early_return(r, symbol, signal, status, message) ==
    [ rm |-> r, status |-> status, message |-> message, exc |-> "none",
      submit_called |-> FALSE, symbol |-> symbol, side |-> SideOf(signal),
      position_value |-> 0, capital |-> 0 ]

\* trade_validated recording the position before the venue answered
trade_validated_eager(symbol, side, size, v, gw_ok) ==
    [ rm |-> IF v.exc = "none" /\ v.valid
             THEN update_position(v.rm, symbol, size.position_value)
             ELSE v.rm,
      status |-> IF v.exc # "none" THEN "raised"
                 ELSE IF ~v.valid THEN "rejected"
                 ELSE IF gw_ok THEN "success" ELSE "error",
      message |-> IF v.exc # "none" THEN ""
                  ELSE IF ~v.valid THEN v.reason
                  ELSE IF gw_ok THEN "" ELSE "Order failed",
      exc |-> v.exc,
      submit_called |-> (v.exc = "none" /\ v.valid),
      symbol |-> symbol, side |-> side,
      position_value |-> size.position_value,
      capital |-> get_current_capital(v.rm) ]

\* execute_trade from validate_trade's outcome v on: a rejection, or
\* submit_order and update_position
trade_validated(symbol, side, size, v, gw_ok) ==
    [ rm |-> IF v.exc = "none" /\ v.valid /\ gw_ok
             THEN update_position(v.rm, symbol, size.position_value)
             ELSE v.rm,
      status |-> IF v.exc # "none" THEN "raised"
                 ELSE IF ~v.valid THEN "rejected"
                 ELSE IF gw_ok THEN "success" ELSE "error",
      message |-> IF v.exc # "none" THEN ""
                  ELSE IF ~v.valid THEN v.reason
                  ELSE IF gw_ok THEN "" ELSE "Order failed",
      exc |-> v.exc,
      submit_called |-> (v.exc = "none" /\ v.valid),
      symbol |-> symbol, side |-> side,
      position_value |-> size.position_value,
      capital |-> get_current_capital(v.rm) ]

\* trade_sized without the return on shares == 0
trade_sized_unskipped(r, now, symbol, signal, price, size, gw_ok) ==
    trade_validated(symbol, SideOf(signal), size,
                    validate_trade(r, now, size.shares, price, SideOf(signal)),
                    gw_ok)

\* trade_sized running the validator before the test of shares == 0
trade_sized_validating(r, now, symbol, signal, price, size, gw_ok) ==
    IF size.shares = 0
    THEN early_return(validate_trade(r, now, size.shares, price, SideOf(signal)).rm,
                      symbol, signal, "skipped", "Position size too small")
    ELSE trade_validated(symbol, SideOf(signal), size,
                         validate_trade(r, now, size.shares, price, SideOf(signal)),
                         gw_ok)

\* execute_trade from the sizing on
trade_sized(r, now, symbol, signal, price, size, gw_ok) ==
    IF size.shares = 0
    THEN early_return(r, symbol, signal, "skipped", "Position size too small")
    ELSE trade_validated(symbol, SideOf(signal), size,
                         validate_trade(r, now, size.shares, price, SideOf(signal)),
                         gw_ok)

\* execute_trade.  price is get_current_price's answer (None: unavailable),
\* gw_ok says whether the venue accepts the order.  status "raised": an
\* exception (exc) left the call.
execute_trade(r, trading, now, symbol, signal, cc, price, gw_ok) ==
    IF ~trading
    THEN early_return(r, symbol, signal, "error", "Trading is not active")
    ELSE IF signal = "Hold"
    THEN early_return(r, symbol, signal, "skipped", "Hold signal")
    ELSE IF IsNone(price)
    THEN early_return(r, symbol, signal, "error", "Could not fetch price")
    ELSE trade_sized(r, now, symbol, signal, Val(price),
                     calculate_position_size(r, symbol, cc, Val(price)), gw_ok)

\* The venue after it accepted an order: a buy opens a position
AfterOrder(pos, res) ==
    IF res.status = "success" /\ res.side = "buy" /\ pos[res.symbol] = "none"
    THEN [pos EXCEPT ![res.symbol] = "flat"]
    ELSE pos

\* TradingExecutor.close_position.  gw_ok: the venue's calls succeed.
ex_close_position(r, pos, symbol, gw_ok) ==
    IF pos[symbol] = "none" \/ ~gw_ok
    THEN [rm |-> r, positions |-> pos, status |-> "error", pnl |-> 0]
    ELSE LET pnl == PosData(pos[symbol]).pnl
         IN  [ rm |-> rm_close_position(r, symbol, pnl),
               positions |-> [pos EXCEPT ![symbol] = "none"],
               status |-> "success", pnl |-> pnl ]

\* TradingExecutor.close_all_positions: closes every listed position in turn
RECURSIVE close_all_loop(_, _, _, _)
close_all_loop(r, pos, list, gw) ==
    IF list = << >> THEN [rm |-> r, positions |-> pos]
    ELSE LET res == ex_close_position(r, pos, Head(list), gw[Head(list)])
         IN  close_all_loop(res.rm, res.positions, Tail(list), gw)

(***************************************************************************)
(* AutoAgent                                                               *)
(***************************************************************************)
TAKE_PROFIT_PCT == 10

\* monitor_risk's test of one position
monitor_wants_close(r, pnl_pct) ==
    IF pnl_pct =< -r.max_stop_loss_pct THEN TRUE
    ELSE IF pnl_pct >= TAKE_PROFIT_PCT THEN TRUE
    ELSE FALSE

\* The for loop of monitor_risk over the listed positions.  st carries the
\* RiskManager, the venue, the ledger, the number of close requests that
\* succeeded and the symbols a close was requested for (asked).  snap is the
\* list's data, gw[s] whether the venue closes s, io whether the ledger file
\* can be written: a fault of close_trade ends the pass in the except clause
\* of monitor_risk.
RECURSIVE monitor_loop(_, _, _, _, _)
monitor_loop(st, list, snap, gw, io) ==
    IF list = << >> THEN st
    ELSE LET symbol == Head(list)
         IN  IF ~monitor_wants_close(st.rm, PosData(snap[symbol]).pnl_pct)
             THEN monitor_loop(st, Tail(list), snap, gw, io)
             ELSE LET res == ex_close_position(st.rm, st.positions, symbol, gw[symbol])
                      led == close_trade(st.trades, symbol)
                      st0 == [st EXCEPT !.asked = Append(@, symbol)]
                  IN  IF res.status # "success"
                      THEN monitor_loop(st0, Tail(list), snap, gw, io)
                      ELSE LET st1 == [ rm |-> res.rm, positions |-> res.positions,
                                        trades |-> led, closes |-> st.closes + 1,
                                        asked |-> st0.asked ]
                           IN  IF led # st.trades /\ ~io THEN st1
                               ELSE monitor_loop(st1, Tail(list), snap, gw, io)

\* The decision rule of run_cycle: signal and confidence (hundredths)
Sentiments == {"Bullish", "Bearish", "Neutral"}
decide(sentiment, technical_signal) ==
    IF sentiment = "Bullish" /\ technical_signal = "Buy"
    THEN [signal |-> "Buy", confidence |-> 85]
    ELSE IF sentiment = "Bearish"
    THEN [signal |-> "Sell", confidence |-> 75]
    ELSE [signal |-> "Hold", confidence |-> 0]

(***************************************************************************)
(* Bounds and the inputs the environment supplies                          *)
(***************************************************************************)
MaxDay == 1
MaxTasks == 1
MaxLoops == 2
MaxOrders == 1
TaskIds == 1..MaxLoops
Equities == {10000}
Quotes == {None, Some(30000), Some(40000)}
ManualConfidences == {30, 85}
Signals == {"Buy", "Sell", "Hold"}
\* Every accepted order is logged: the venue accepts MaxOrders of them
VenueAnswers == IF Len(trades) < MaxOrders THEN BOOLEAN ELSE {FALSE}

\* The venue's answer is an input only of a call that asks it
VenueAsked(res, gw_ok) == res.submit_called \/ gw_ok \/ VenueAnswers = {FALSE}

\* A task: where it is (pc, and idx in the watch list), whether cancel() was
\* called on it, and history: the events of its current cycle (log), whether
\* that cycle's monitor pass realised a loss that reached the daily limit
\* (loss_hit), whether the cycle follows a faulted one (after_fault) and
\* whether stop() was called since the task was created (stop_seen), and
\* whether it was called while a cycle was under way (stop_mid).
NoTask == [ pc |-> "none", idx |-> 0, cancel |-> FALSE, log |-> << >>,
            loss_hit |-> FALSE, after_fault |-> FALSE, stop_seen |-> FALSE,
            stop_mid |-> FALSE ]

\* The daily loss, as a percentage of the day's starting capital, is at or
\* over the limit
LossLimitReached(r) ==
    /\ ~IsNone(r.daily_start_capital)
    /\ Val(r.daily_start_capital) # 0
    /\ IF Val(r.daily_start_capital) > 0
       THEN -r.daily_pnl * 100 >= r.max_daily_loss_pct * Val(r.daily_start_capital)
       ELSE -r.daily_pnl * 100 =< r.max_daily_loss_pct * Val(r.daily_start_capital)

\* The positions of a task inside run_cycle, where the event loop's thread
\* is busy: run_cycle awaits nothing that suspends it.  "calling": inside
\* a call of the venue or of the price feed that has not returned.
MidCycle == {"monitor", "rebalance", "gate", "asset", "calling"}
LoopFree == \A t \in TaskIds : task[t].pc \notin MidCycle

vars == <<today, rm, is_trading, is_running, w3, positions, trades, task,
          agent_task, dsc_changes, fnArgs, fnRet>>

\* history: count the changes of daily_start_capital on the current date
Track(r) ==
    dsc_changes' = IF r.daily_start_capital # rm.daily_start_capital
                   THEN dsc_changes + 1 ELSE dsc_changes

Init ==
    /\ today = 0
    /\ rm = NewRiskManager(0)
    /\ is_trading = FALSE
    /\ is_running = FALSE
    /\ w3 \in BOOLEAN
    /\ positions = [s \in Symbols |-> "none"]
    /\ trades = << >>
    /\ task = [t \in TaskIds |-> NoTask]
    /\ agent_task = 0
    /\ dsc_changes = 0
    /\ fnArgs = None
    /\ fnRet = None

(***************************************************************************)
(* The environment: the calendar and the market                            *)
(***************************************************************************)
Tick ==
    /\ today < MaxDay
    /\ today' = today + 1
    /\ dsc_changes' = 0
    /\ UNCHANGED <<rm, is_trading, is_running, w3, positions, trades, task,
                   agent_task, fnArgs, fnRet>>

Market(s, cls) ==
    /\ positions[s] # "none"
    /\ cls \notin {"none", positions[s]}
    /\ positions' = [positions EXCEPT ![s] = cls]
    /\ UNCHANGED <<today, rm, is_trading, is_running, w3, trades, task,
                   agent_task, dsc_changes, fnArgs, fnRet>>

(***************************************************************************)
(* main.py: the request handlers.  The sync handlers run on worker threads *)
(* and may act at any moment; start_autonomous_trading is a coroutine of   *)
(* the event loop and runs only while no cycle occupies it.                *)
(***************************************************************************)
\* What a call of get_risk_metrics or can_trade leaves behind
RiskDone(m) == rm' = m.rm /\ Track(m.rm)

\* POST /execute/start, with at most n tasks created in all.  The handler
\* tests is_running, which only the first step of the task sets.
StartUpTo(n) ==
    /\ LoopFree
    /\ ~is_running => agent_task < n
    /\ RiskDone(get_risk_metrics(rm, today, None, None))
    /\ IF ~is_running
       THEN /\ is_trading' = TRUE
            /\ agent_task' = agent_task + 1
            /\ task' = [task EXCEPT ![agent_task + 1] = [NoTask EXCEPT !.pc = "new"]]
       ELSE UNCHANGED <<is_trading, agent_task, task>>
    /\ UNCHANGED <<today, is_running, w3, positions, trades, fnArgs,
                   fnRet>>

StartAutonomous == StartUpTo(MaxTasks)

\* POST /execute/stop: AutoAgent.stop, stop_trading, agent_task.cancel()
StopAutonomous ==
    /\ is_running' = FALSE
    /\ is_trading' = FALSE
    /\ task' = [t \in TaskIds |->
                  IF task[t].pc \in {"none", "done"} THEN task[t]
                  ELSE [task[t] EXCEPT !.stop_seen = TRUE,
                                       !.stop_mid = (@ \/ ~LoopFree),
                                       !.cancel = (@ \/ t = agent_task)]]
    /\ UNCHANGED <<today, rm, w3, positions, trades, agent_task, dsc_changes, fnArgs, fnRet>>

\* What a call of execute_trade leaves behind: the RiskManager, the venue's
\* positions and, when the caller logs a success, the ledger
TradeDone(res) ==
    /\ rm' = res.rm /\ Track(res.rm)
    /\ positions' = AfterOrder(positions, res)
    /\ trades' = IF res.status = "success" THEN log_trade(trades, res.symbol)
                 ELSE trades

\* POST /execute/trade.  A call that returns before the sizing (switch off,
\* Hold, no price) changes nothing: it is a stuttering step.
ManualTrade ==
    \E symbol \in Symbols, signal \in Signals, cc \in ManualConfidences,
       price \in Quotes, gw_ok \in VenueAnswers :
        /\ is_trading /\ signal # "Hold" /\ ~IsNone(price)
        /\ LET res == execute_trade(rm, is_trading, today, symbol, signal, cc,
                                    price, gw_ok)
           IN  VenueAsked(res, gw_ok) /\ TradeDone(res)
        /\ UNCHANGED <<today, is_trading, is_running, w3, task, agent_task,
                       fnArgs, fnRet>>

\* GET /portfolio/status: reconciles the RiskManager with the venue
LiveDict(list, pos) ==
    [s \in {list[i] : i \in DOMAIN list} |-> PosData(pos[s]).market_value]

PortfolioStatus ==
    \E pos_ok \in BOOLEAN, acct_ok \in BOOLEAN, equity \in Equities :
        /\ RiskDone(get_risk_metrics(
                        rm, today,
                        Some(LiveDict(get_positions(positions, pos_ok), positions)),
                        Some(IF acct_ok THEN equity ELSE 0)))
        /\ UNCHANGED <<today, is_trading, is_running, w3, positions,
                       trades, task, agent_task, fnArgs, fnRet>>

\* POST /portfolio/close/{symbol}: after a successful close the position is
\* no longer among get_positions(), so the ledger is left alone
CloseDone(res) ==
    /\ rm' = res.rm /\ Track(res.rm)
    /\ positions' = res.positions

ManualClose(symbol) ==
    \E gw_ok \in BOOLEAN :
        /\ CloseDone(ex_close_position(rm, positions, symbol, gw_ok))
        /\ UNCHANGED <<today, is_trading, is_running, w3, trades, task,
                       agent_task, fnArgs, fnRet>>

\* POST /portfolio/close_all
CloseAll ==
    \E pos_ok \in BOOLEAN, gw \in [Symbols -> BOOLEAN] :
        /\ CloseDone(close_all_loop(rm, positions,
                                    get_positions(positions, pos_ok), gw))
        /\ UNCHANGED <<today, is_trading, is_running, w3, trades, task,
                       agent_task, fnArgs, fnRet>>

(***************************************************************************)
(* AutoAgent.start and run_cycle, one step per pass of the cycle           *)
(***************************************************************************)
Goto(t, pc) == [task EXCEPT ![t].pc = pc]
Logged(t, pc, events) == [task EXCEPT ![t].pc = pc, ![t].log = @ \o events]
CycleStart(t) == [task EXCEPT ![t].pc = "monitor", ![t].idx = 0, ![t].log = << >>,
                              ![t].loss_hit = FALSE,
                              ![t].after_fault = (task[t].pc = "backoff")]

\* The first step of the task: is_running = True, then the first cycle.  A
\* task cancelled before it ran never starts.
TaskBegin(t) ==
    /\ task[t].pc = "new"
    /\ LoopFree
    /\ IF task[t].cancel
       THEN /\ task' = Goto(t, "done")
            /\ UNCHANGED is_running
       ELSE /\ task' = CycleStart(t)
            /\ is_running' = TRUE
    /\ UNCHANGED <<today, rm, is_trading, w3, positions, trades, agent_task,
                   dsc_changes, fnArgs, fnRet>>

\* await self.monitor_risk(): st is the state the pass leaves
MonitorDone(t, st) ==
    /\ rm' = st.rm /\ Track(st.rm)
    /\ positions' = st.positions
    /\ trades' = st.trades
    /\ task' = [task EXCEPT
           ![t].pc = "rebalance",
           ![t].log = @ \o [i \in 1..st.closes |-> "close"],
           ![t].loss_hit = /\ st.closes > 0
                           /\ st.rm.daily_pnl < rm.daily_pnl
                           /\ LossLimitReached(st.rm)]

LoopMonitor(t) ==
    /\ task[t].pc = "monitor"
    /\ \E pos_ok \in BOOLEAN, gw \in [Symbols -> BOOLEAN], io \in BOOLEAN :
        MonitorDone(t, monitor_loop([rm |-> rm, positions |-> positions,
                                     trades |-> trades, closes |-> 0,
                                     asked |-> << >>],
                                    get_positions(positions, pos_ok),
                                    positions, gw, io))
    /\ UNCHANGED <<today, is_trading, is_running, w3, agent_task, fnArgs, fnRet>>

\* await self.rebalance_portfolio(): reads the venue, prints an advisory
LoopRebalance(t) ==
    /\ task[t].pc = "rebalance"
    /\ task' = Logged(t, "gate", <<"rebalance">>)
    /\ UNCHANGED <<today, rm, is_trading, is_running, w3, positions, trades,
                   agent_task, dsc_changes, fnArgs, fnRet>>

\* can_trade, reason = self.risk_manager.can_trade(): a fault leaves
\* run_cycle, a closed gate returns from it
GateDone(t, g) ==
    /\ RiskDone(g)
    /\ task' = IF g.exc # "none" THEN Logged(t, "backoff", <<"gate_fault">>)
               ELSE IF ~g.allowed THEN Logged(t, "sleep", <<"gate_closed">>)
               ELSE [task EXCEPT ![t].pc = "asset", ![t].idx = 1,
                                 ![t].log = Append(@, "gate_open")]

LoopGate(t) ==
    /\ task[t].pc = "gate"
    /\ GateDone(t, can_trade(rm, today))
    /\ UNCHANGED <<today, is_trading, is_running, w3, positions, trades,
                   agent_task, fnArgs, fnRet>>

\* After an asset: the next one, or the end of run_cycle and the sleep
NextAsset(t, events) ==
    IF task[t].idx < Len(WatchList)
    THEN [task EXCEPT ![t].idx = @ + 1, ![t].log = @ \o events]
    ELSE [task EXCEPT ![t].pc = "sleep", ![t].idx = 0, ![t].log = @ \o events]

\* One iteration of `for asset in assets`
SwapAnswers == IF w3 THEN BOOLEAN ELSE {TRUE}

\* What the iteration did outside the program: with a connected wallet the
\* swap transaction, sent before execute_trade is called, then the order
AssetEvents(res) ==
    (IF w3 THEN <<"swap">> ELSE << >>)
        \o (IF res.submit_called THEN <<"submit">> ELSE << >>)

\* The asset's trade: res is execute_trade's outcome, io whether the ledger
\* file can be written.  An exception of execute_trade or of log_trade
\* leaves run_cycle.
AssetTraded(t, res, io) ==
    /\ TradeDone(res)
    /\ task' = IF res.exc # "none" \/ (res.status = "success" /\ ~io)
               THEN [task EXCEPT ![t].pc = "backoff", ![t].idx = 0,
                                 ![t].log = @ \o AssetEvents(res)]
               ELSE NextAsset(t, AssetEvents(res))

AssetUntraded(t, pc) ==
    /\ task' = IF pc = "asset" THEN NextAsset(t, << >>)
               ELSE [task EXCEPT ![t].pc = pc, ![t].idx = 0]
    /\ UNCHANGED <<rm, positions, trades, dsc_changes>>

AssetOrder(t, d, price, gw_ok) ==
    execute_trade(rm, is_trading, today, WatchList[task[t].idx], d.signal,
                  d.confidence, price, gw_ok)

\* io is read only when a success is logged
AssetTrade(t, sentiment, price, gw_ok, io) ==
    \E res \in {AssetOrder(t, decide(sentiment, "Buy"), price, gw_ok)} :
        /\ VenueAsked(res, gw_ok)
        /\ io \/ res.status = "success"
        /\ AssetTraded(t, res, io)

\* The inputs of an iteration that does not read them are fixed
Unread(swap_ok, price, gw_ok, io) ==
    swap_ok /\ IsNone(price) /\ io /\ (gw_ok \/ VenueAnswers = {FALSE})

LoopAsset(t) ==
    /\ task[t].pc = "asset"
    /\ IF ~is_running
       THEN AssetUntraded(t, "sleep")
       ELSE \E sentiment \in Sentiments, swap_ok \in SwapAnswers, price \in Quotes,
               gw_ok \in VenueAnswers, io \in BOOLEAN :
            IF decide(sentiment, "Buy").signal = "Hold"
            THEN Unread(swap_ok, price, gw_ok, io) /\ AssetUntraded(t, "asset")
            ELSE IF w3 /\ ~swap_ok
            THEN \* tx['tx_hash'] of an error answer: KeyError
                 Unread(TRUE, price, gw_ok, io) /\ AssetUntraded(t, "backoff")
            ELSE AssetTrade(t, sentiment, price, gw_ok, io)
    /\ UNCHANGED <<today, is_trading, is_running, w3, agent_task, fnArgs, fnRet>>

\* The loop with `except Exception` leaving it: a faulted cycle ends the task
LoopWake_fatal(t) ==
    /\ task[t].pc \in {"sleep", "backoff"}
    /\ LoopFree
    /\ task' = IF task[t].cancel \/ ~is_running \/ task[t].pc = "backoff"
               THEN Goto(t, "done")
               ELSE CycleStart(t)
    /\ UNCHANGED <<today, rm, is_trading, is_running, w3, positions, trades,
                   agent_task, dsc_changes, fnArgs, fnRet>>

\* The end of asyncio.sleep: a cancelled task ends there, otherwise
\* `while self.is_running` decides
LoopWake(t) ==
    /\ task[t].pc \in {"sleep", "backoff"}
    /\ LoopFree
    /\ task' = IF task[t].cancel \/ ~is_running THEN Goto(t, "done")
               ELSE CycleStart(t)
    /\ UNCHANGED <<today, rm, is_trading, is_running, w3, positions, trades,
                   agent_task, dsc_changes, fnArgs, fnRet>>

Next ==
    \/ Tick
    \/ \E s \in Symbols, cls \in PositionClasses : Market(s, cls)
    \/ StartAutonomous
    \/ StopAutonomous
    \/ ManualTrade
    \/ PortfolioStatus
    \/ \E s \in Symbols : ManualClose(s)
    \/ CloseAll
    \/ \E t \in TaskIds : TaskBegin(t)
    \/ \E t \in TaskIds : LoopMonitor(t)
    \/ \E t \in TaskIds : LoopRebalance(t)
    \/ \E t \in TaskIds : LoopGate(t)
    \/ \E t \in TaskIds : LoopAsset(t)
    \/ \E t \in TaskIds : LoopWake(t)

Spec == Init /\ [][Next]_vars

\* The iteration of an asset that trades nothing: the break when the flag
\* is down, otherwise the Hold branch.  It is a step LoopAsset can always take.
LoopAssetQuiet(t) ==
    /\ task[t].pc = "asset"
    /\ AssetUntraded(t, IF is_running THEN "asset" ELSE "sleep")
    /\ UNCHANGED <<today, is_trading, is_running, w3, agent_task, fnArgs, fnRet>>

\* The event loop runs a task that is ready: a new task begins, a cycle
\* under way goes on (run_cycle awaits nothing that blocks for ever) and a
\* sleep ends once the loop's thread is free.  An iteration over an asset
\* ends whatever its inputs are, so the task does not stay at an asset for
\* ever: no outcome of the iteration is forced.
Fairness ==
    \A t \in TaskIds :
        /\ WF_vars(TaskBegin(t))
        /\ WF_vars(LoopMonitor(t))
        /\ WF_vars(LoopRebalance(t))
        /\ WF_vars(LoopGate(t))
        /\ WF_vars(LoopAssetQuiet(t))
        /\ WF_vars(LoopWake(t))

FairSpec == Init /\ [][Next]_vars /\ Fairness

(***************************************************************************)
(* The loop with a venue or price feed that may not answer                 *)
(***************************************************************************)
\* execute_trade calls get_crypto_latest_quote and submit_order on the event
\* loop's thread, with no timeout of its own and not under asyncio.wait_for:
\* the call returns when the client library returns.  GatewayHangs is the
\* iteration of an asset whose call does not return: the task stays inside
\* it, and nothing in the program takes it out.
GatewayHangs(t) ==
    /\ task[t].pc = "asset"
    /\ is_running /\ is_trading
    /\ task' = Goto(t, "calling")
    /\ UNCHANGED <<today, rm, is_trading, is_running, w3, positions, trades,
                   agent_task, dsc_changes, fnArgs, fnRet>>

NextHang ==
    \/ Next
    \/ \E t \in TaskIds : GatewayHangs(t)

SpecHang == Init /\ [][NextHang]_vars

FairHang == Init /\ [][NextHang]_vars /\ Fairness

(***************************************************************************)
(* The loop's life alone: start and stop requests, the status request and  *)
(* the tasks, with up to MaxLoops tasks created                            *)
(***************************************************************************)
StartAgain == StartUpTo(MaxLoops)

NextLoops ==
    \/ StartAgain
    \/ StopAutonomous
    \/ PortfolioStatus
    \/ \E t \in TaskIds : TaskBegin(t)
    \/ \E t \in TaskIds : LoopMonitor(t)
    \/ \E t \in TaskIds : LoopRebalance(t)
    \/ \E t \in TaskIds : LoopGate(t)
    \/ \E t \in TaskIds : LoopAsset(t)
    \/ \E t \in TaskIds : LoopWake(t)

SpecLoops == Init /\ [][NextLoops]_vars

(***************************************************************************)
(* A direct call of run_cycle(), and a second one, with the same answers   *)
(* of the analyzer, the price feed, the venue and the file system          *)
(***************************************************************************)
MaxCalls == 2

\* The `for asset in assets` loop of run_cycle from WatchList[idx] on.  st:
\* the RiskManager, the venue, the ledger, the symbols submit_order was
\* called for and the exception that left the loop; env: the flags and the
\* date; in: the answers the pass gets.
RECURSIVE asset_loop(_, _, _, _)
RECURSIVE asset_traded(_, _, _, _, _)
asset_loop(st, idx, env, in) ==
    IF idx > Len(WatchList) \/ ~env.running THEN st
    ELSE IF decide(in.sentiment[WatchList[idx]], "Buy").signal = "Hold"
    THEN asset_loop(st, idx + 1, env, in)
    ELSE IF env.w3 /\ ~in.swap_ok
    THEN [st EXCEPT !.exc = "KeyError"]
    ELSE asset_traded(st, idx, env, in,
                      execute_trade(st.rm, env.trading, env.now, WatchList[idx],
                                    decide(in.sentiment[WatchList[idx]], "Buy").signal,
                                    decide(in.sentiment[WatchList[idx]], "Buy").confidence,
                                    in.price, in.gw_ok))

\* asset_traded with one more submit_order after a failed one
asset_traded_retrying(st, idx, env, in, res) ==
    LET st1 == [st EXCEPT
                   !.rm = res.rm,
                   !.positions = AfterOrder(@, res),
                   !.trades = IF res.status = "success"
                              THEN log_trade(@, res.symbol) ELSE @,
                   !.submits = IF res.submit_called /\ res.status = "error"
                               THEN Append(Append(@, res.symbol), res.symbol)
                               ELSE IF res.submit_called
                               THEN Append(@, res.symbol) ELSE @]
    IN  IF res.exc # "none" THEN [st1 EXCEPT !.exc = res.exc]
        ELSE IF res.status = "success" /\ ~in.io THEN [st1 EXCEPT !.exc = "OSError"]
        ELSE asset_loop(st1, idx + 1, env, in)

asset_traded(st, idx, env, in, res) ==
    LET st1 == [st EXCEPT
                   !.rm = res.rm,
                   !.positions = AfterOrder(@, res),
                   !.trades = IF res.status = "success"
                              THEN log_trade(@, res.symbol) ELSE @,
                   !.submits = IF res.submit_called
                               THEN Append(@, res.symbol) ELSE @]
    IN  IF res.exc # "none" THEN [st1 EXCEPT !.exc = res.exc]
        ELSE IF res.status = "success" /\ ~in.io THEN [st1 EXCEPT !.exc = "OSError"]
        ELSE asset_loop(st1, idx + 1, env, in)

\* run_cycle from the gate on: m is what monitor_risk left, g what can_trade
\* answered
cycle_gated(m, g, env, in) ==
    IF g.exc # "none" \/ ~g.allowed
    THEN [rm |-> g.rm, positions |-> m.positions, trades |-> m.trades,
          submits |-> << >>, exc |-> g.exc]
    ELSE asset_loop([rm |-> g.rm, positions |-> m.positions, trades |-> m.trades,
                     submits |-> << >>, exc |-> "none"], 1, env, in)

cycle_monitored(pre, m, env, in) ==
    [ end |-> cycle_gated(m, can_trade(m.rm, env.now), env, in),
      closed |-> {s \in Symbols : pre.positions[s] # "none" /\ m.positions[s] = "none"},
      asked |-> m.asked,
      monitored |-> [rm |-> m.rm, trades |-> m.trades] ]

\* run_cycle: monitor_risk, rebalance_portfolio (which changes nothing), the
\* gate, the assets
run_cycle(pre, env, in) ==
    cycle_monitored(pre,
                    monitor_loop([rm |-> pre.rm, positions |-> pre.positions,
                                  trades |-> pre.trades, closes |-> 0,
                                  asked |-> << >>],
                                 get_positions(pre.positions, in.pos_ok),
                                 pre.positions, in.gw_close,
                                 in.io),
                    env, in)

CycleCapitals == {10, 10000}
CyclePositions ==
    {pos \in [Symbols -> PositionClasses] : pos["ETH/USD"] \in {"none", "loss"}}
CycleQuotes == {None, Some(30000), Some(200000)}
CycleInputs ==
    [ sentiment : [Symbols -> Sentiments], price : CycleQuotes,
      gw_ok : BOOLEAN, gw_close : [Symbols -> BOOLEAN], pos_ok : BOOLEAN, io : BOOLEAN,
      swap_ok : BOOLEAN ]

\* The ledger holding an open trade for every position held
OpenLedger(list) == [i \in DOMAIN list |-> [symbol |-> list[i], status |-> "open"]]

InitCycle ==
    /\ today = 0
    /\ is_trading \in BOOLEAN
    /\ is_running \in BOOLEAN
    /\ w3 \in BOOLEAN
    /\ positions \in CyclePositions
    /\ trades = OpenLedger(get_positions(positions, TRUE))
    /\ \E c \in CycleCapitals :
          rm = [NewRiskManager(0) EXCEPT
                   !.daily_start_capital = Some(c),
                   !.open_positions = LiveDict(get_positions(positions, TRUE),
                                               positions)]
    /\ task = [t \in TaskIds |-> NoTask]
    /\ agent_task = 0
    /\ dsc_changes = 0
    /\ fnArgs \in CycleInputs
    /\ fnRet = << >>

Env == [running |-> is_running, trading |-> is_trading, now |-> today, w3 |-> w3]

\* fnRet collects, call by call, the state before the call and what it did
RunCycle ==
    /\ Len(fnRet) < MaxCalls
    /\ \E out \in {run_cycle([rm |-> rm, positions |-> positions, trades |-> trades],
                             Env, fnArgs)} :
          /\ rm' = out.end.rm /\ Track(out.end.rm)
          /\ positions' = out.end.positions
          /\ trades' = out.end.trades
          /\ fnRet' = Append(fnRet, [pre |-> [rm |-> rm, positions |-> positions,
                                              trades |-> trades],
                                     out |-> out])
    /\ UNCHANGED <<today, is_trading, is_running, w3, task, agent_task, fnArgs>>

NextCycle == RunCycle

SpecCycle == InitCycle /\ [][NextCycle]_vars

(***************************************************************************)
(* A direct call of rebalance_portfolio()                                  *)
(***************************************************************************)
CRYPTO_MAX_PCT == 55
STOCK_MAX_PCT == 35

\* The symbols rebalance_portfolio counts as crypto
CryptoNames == {"BTC", "ETH"}

\* sum(p["market_value"] for p in positions if test(p["symbol"])), in 1e-4
\* dollars
RECURSIVE market_value_of(_, _, _)
market_value_of(list, pos, names) ==
    IF list = << >> THEN 0
    ELSE (IF Head(list) \in names THEN PosData(pos[Head(list)]).market_value ELSE 0)
         + market_value_of(Tail(list), pos, names)

\* rebalance_portfolio from the allocations on: the advisory it prints
\* (values in 1e-4 dollars, total_value in dollars, total_value > 0)
rebalance_advice(crypto_value, stock_value, total_value) ==
    IF crypto_value > CRYPTO_MAX_PCT * total_value * (SHARE_SCALE \div 100)
    THEN "crypto_overweight"
    ELSE IF stock_value > STOCK_MAX_PCT * total_value * (SHARE_SCALE \div 100)
    THEN "stock_overweight"
    ELSE "balanced"

\* rebalance_portfolio: list is get_positions()'s answer, total_value the
\* account's portfolio_value in dollars (0 when the account call fails)
rebalance_portfolio(list, pos, total_value) ==
    IF total_value = 0 THEN "nothing"
    ELSE rebalance_advice(market_value_of(list, pos, CryptoNames),
                          market_value_of(list, pos, Symbols \ CryptoNames),
                          total_value)

PortfolioValues == {0, 700, 1000, 2000, 10000}

InitRebalance ==
    /\ today = 0
    /\ is_trading = FALSE
    /\ is_running = FALSE
    /\ w3 = FALSE
    /\ positions \in [Symbols -> PositionClasses]
    /\ trades = OpenLedger(get_positions(positions, TRUE))
    /\ rm = [NewRiskManager(0) EXCEPT
                !.daily_start_capital = Some(INITIAL_CAPITAL),
                !.open_positions = LiveDict(get_positions(positions, TRUE),
                                            positions)]
    /\ task = [t \in TaskIds |-> NoTask]
    /\ agent_task = 0
    /\ dsc_changes = 0
    /\ fnArgs \in [pos_ok : BOOLEAN, total_value : PortfolioValues]
    /\ fnRet = None

\* rebalance_portfolio that sells what is overweight
RebalancePortfolio_reducing ==
    /\ fnRet = None
    /\ \E advice \in {rebalance_portfolio(get_positions(positions, fnArgs.pos_ok),
                                          positions, fnArgs.total_value)} :
          /\ fnRet' = Some(advice)
          /\ positions' = IF advice \in {"crypto_overweight", "stock_overweight"}
                          THEN [s \in Symbols |-> "none"] ELSE positions
    /\ UNCHANGED <<today, rm, is_trading, is_running, w3, trades, task,
                   agent_task, dsc_changes, fnArgs>>

RebalancePortfolio ==
    /\ fnRet = None
    /\ fnRet' = Some(rebalance_portfolio(get_positions(positions, fnArgs.pos_ok),
                                         positions, fnArgs.total_value))
    /\ UNCHANGED <<today, rm, is_trading, is_running, w3, positions, trades, task,
                   agent_task, dsc_changes, fnArgs>>

NextRebalance == RebalancePortfolio

SpecRebalance == InitRebalance /\ [][NextRebalance]_vars

(***************************************************************************)
(* A direct call of get_risk_metrics(live_positions, current_equity) with  *)
(* live data                                                               *)
(***************************************************************************)
\* The dict get_risk_metrics returns, from the RiskManager r as the syncs
\* left it and the locals current_capital and daily_loss_pct (its numerator)
snapshot_of(r, current_capital, daily_loss) ==
    [ current_capital |-> current_capital,
      daily_pnl |-> r.daily_pnl,
      daily_loss |-> daily_loss,
      daily_loss_limit |-> r.max_daily_loss_pct,
      open_positions |-> Cardinality(DOMAIN r.open_positions) ]

\* What the call returns: None when an exception leaves it
metrics_returned(r, now, live_positions, current_equity) ==
    IF get_risk_metrics(r, now, live_positions, current_equity).exc # "none"
    THEN None
    ELSE Some(snapshot_of(
                  sync_positions(sync_equity(r, now, current_equity), live_positions),
                  get_current_capital(sync_equity(r, now, current_equity)),
                  Val(sync_equity(r, now, current_equity).daily_start_capital)
                      - get_current_capital(sync_equity(r, now, current_equity))))

\* The dict's "can_trade" entry: can_trade()[0], evaluated last, on the
\* RiskManager as the syncs left it
metrics_gate(r, now, live_positions, current_equity) ==
    can_trade(sync_positions(sync_equity(r, now, current_equity), live_positions),
              now).allowed

\* The baseline that divides the dict's "daily_loss_pct" entry
metrics_base(r, now, current_equity) ==
    Val(sync_equity(r, now, current_equity).daily_start_capital)

MetricsBaselines == {None, Some(9000), Some(10000)}
MetricsPnls == {0, -300}
MetricsEquities == {0, 9700, 10000}
MetricsDays == {0, 1}

InitMetrics ==
    /\ today \in MetricsDays
    /\ is_trading = FALSE
    /\ is_running = FALSE
    /\ w3 = FALSE
    /\ positions \in [Symbols -> LiveClasses]
    /\ trades = << >>
    /\ \E b \in MetricsBaselines, p \in MetricsPnls :
          rm = [NewRiskManager(0) EXCEPT !.daily_start_capital = b,
                                         !.daily_pnl = p]
    /\ task = [t \in TaskIds |-> NoTask]
    /\ agent_task = 0
    /\ dsc_changes = 0
    /\ fnArgs \in [pos_ok : BOOLEAN, equity : MetricsEquities]
    /\ fnRet = None

\* The live_positions argument, as get_portfolio_status builds it
LiveArg == LiveDict(get_positions(positions, fnArgs.pos_ok), positions)

\* fnRet: the exception that left the call ("none": it returned) and the dict
GetRiskMetrics ==
    /\ fnRet = None
    /\ \E m \in {get_risk_metrics(rm, today, Some(LiveArg), Some(fnArgs.equity))} :
          /\ RiskDone(m)
          /\ fnRet' = Some([exc |-> m.exc,
                            returned |-> metrics_returned(rm, today, Some(LiveArg),
                                                          Some(fnArgs.equity))])
    /\ UNCHANGED <<today, is_trading, is_running, w3, positions, trades, task,
                   agent_task, fnArgs>>

NextMetrics == GetRiskMetrics

SpecMetrics == InitMetrics /\ [][NextMetrics]_vars

(***************************************************************************)
(* get_risk_metrics on one thread, RiskManager.close_position on another   *)
(***************************************************************************)
\* GET /portfolio/status and POST /portfolio/close/{symbol} are plain def
\* handlers: each runs on a worker thread, and the loop on the event loop's
\* thread.  The RiskManager has no lock, so a thread may be preempted between
\* any two statements.  fnRet holds the two calls' frames: the statement each
\* is at and the locals of get_risk_metrics.
MetricsEnd == 8
CloseEnd == 3
RacePnls == {-200, 100}
RaceEquities == {9700, 10000}

InitRace ==
    /\ today = 0
    /\ is_trading = FALSE
    /\ is_running = FALSE
    /\ w3 = FALSE
    /\ positions \in [Symbols -> PositionClasses]
    /\ trades = << >>
    /\ \E p \in MetricsPnls :
          rm = [NewRiskManager(0) EXCEPT
                    !.daily_start_capital = Some(10000),
                    !.daily_pnl = p,
                    !.open_positions = LiveDict(get_positions(positions, TRUE),
                                                positions)]
    /\ task = [t \in TaskIds |-> NoTask]
    /\ agent_task = 0
    /\ dsc_changes = 0
    /\ \E e \in RaceEquities, s \in Symbols, p \in RacePnls :
          fnArgs = [rm0 |-> rm, equity |-> e, symbol |-> s, pnl |-> p,
                    live |-> LiveDict(get_positions(positions, TRUE), positions)]
    /\ fnRet = [mpc |-> 1, cpc |-> 1, current_capital |-> 0, daily_loss |-> 0,
                snapshot |-> None]

\* One statement of get_risk_metrics(live_positions, current_equity)
MetricsStatement(f) ==
    CASE f.mpc = 1 ->
           /\ rm' = IF IsNone(rm.daily_start_capital)
                    THEN [rm EXCEPT !.daily_start_capital = Some(fnArgs.equity)]
                    ELSE rm
           /\ fnRet' = [f EXCEPT !.mpc = 2]
      [] f.mpc = 2 ->
           /\ rm' = reset_daily_limits(rm, today)
           /\ fnRet' = [f EXCEPT !.mpc = 3]
      [] f.mpc = 3 ->
           /\ rm' = set_daily_pnl(rm, fnArgs.equity)
           /\ fnRet' = [f EXCEPT !.mpc = 4]
      [] f.mpc = 4 ->
           /\ rm' = rm
           /\ fnRet' = [f EXCEPT !.mpc = 5,
                                 !.current_capital = get_current_capital(rm)]
      [] f.mpc = 5 ->
           /\ rm' = sync_positions(rm, Some(fnArgs.live))
           /\ fnRet' = [f EXCEPT !.mpc = 6]
      [] f.mpc = 6 ->
           /\ rm' = rm
           /\ fnRet' = [f EXCEPT !.mpc = 7,
                                 !.daily_loss = Val(rm.daily_start_capital)
                                                    - f.current_capital]
      [] f.mpc = 7 ->
           /\ rm' = can_trade(rm, today).rm
           /\ fnRet' = [f EXCEPT !.mpc = MetricsEnd,
                                 !.snapshot = Some(snapshot_of(rm, f.current_capital,
                                                               f.daily_loss))]

MetricsStep ==
    /\ fnRet.mpc < MetricsEnd
    /\ MetricsStatement(fnRet)
    /\ Track(rm')
    /\ UNCHANGED <<today, is_trading, is_running, w3, positions, trades, task,
                   agent_task, fnArgs>>

\* One statement of RiskManager.close_position(symbol, pnl)
CloseStatement(f) ==
    CASE f.cpc = 1 ->
           /\ rm' = [rm EXCEPT !.open_positions = DictDel(@, fnArgs.symbol)]
           /\ fnRet' = [f EXCEPT !.cpc = 2]
      [] f.cpc = 2 ->
           /\ rm' = [rm EXCEPT !.daily_pnl = @ + fnArgs.pnl]
           /\ fnRet' = [f EXCEPT !.cpc = CloseEnd]

CloseStep ==
    /\ fnRet.cpc < CloseEnd
    /\ CloseStatement(fnRet)
    /\ Track(rm')
    /\ UNCHANGED <<today, is_trading, is_running, w3, positions, trades, task,
                   agent_task, fnArgs>>

NextRace == MetricsStep \/ CloseStep

SpecRace == InitRace /\ [][NextRace]_vars

(***************************************************************************)
(* RiskManager.close_position on two threads: the loop's risk monitor on   *)
(* the event loop and a close handler on a worker thread                   *)
(***************************************************************************)
Closers == {1, 2}
CloserEnd == 4

\* fnArgs: the RiskManager before the closes and, per closer, the symbol and
\* the realised pnl.  fnRet: per closer, the statement it is at and the
\* daily_pnl it has loaded.
InitClosers ==
    /\ today = 0
    /\ is_trading = FALSE
    /\ is_running = FALSE
    /\ w3 = FALSE
    /\ positions = [s \in Symbols |-> "none"]
    /\ trades = << >>
    /\ \E p \in MetricsPnls :
          rm = [NewRiskManager(0) EXCEPT
                    !.daily_start_capital = Some(10000),
                    !.daily_pnl = p,
                    !.open_positions = [s \in Symbols |-> 500 * SHARE_SCALE]]
    /\ task = [t \in TaskIds |-> NoTask]
    /\ agent_task = 0
    /\ dsc_changes = 0
    /\ fnArgs \in [rm0 : {rm}, symbol : [Closers -> Symbols],
                   pnl : [Closers -> RacePnls]]
    /\ fnRet = [pc |-> [k \in Closers |-> 1], loaded |-> [k \in Closers |-> 0]]

\* One statement of close_position(symbol, pnl) on closer k; the augmented
\* assignment loads self.daily_pnl, adds, and stores the sum
CloserStatement(k, f) ==
    CASE f.pc[k] = 1 ->
           /\ rm' = [rm EXCEPT !.open_positions = DictDel(@, fnArgs.symbol[k])]
           /\ fnRet' = [f EXCEPT !.pc[k] = 2]
      [] f.pc[k] = 2 ->
           /\ rm' = rm
           /\ fnRet' = [f EXCEPT !.pc[k] = 3, !.loaded[k] = rm.daily_pnl]
      [] f.pc[k] = 3 ->
           /\ rm' = [rm EXCEPT !.daily_pnl = f.loaded[k] + fnArgs.pnl[k]]
           /\ fnRet' = [f EXCEPT !.pc[k] = CloserEnd]

CloserStep(k) ==
    /\ fnRet.pc[k] < CloserEnd
    /\ CloserStatement(k, fnRet)
    /\ Track(rm')
    /\ UNCHANGED <<today, is_trading, is_running, w3, positions, trades, task,
                   agent_task, fnArgs>>

NextClosers == \E k \in Closers : CloserStep(k)

SpecClosers == InitClosers /\ [][NextClosers]_vars

(***************************************************************************)
(* Direct calls of the sizing and stop-loss methods                        *)
(***************************************************************************)
MaxConfidence == 100
Confidences == 0..MaxConfidence
SizePrices == {7, 333, 30000}
SizeCapitals == {9700, 10000}
SizeSymbols == {"BTC/USD", "AAPL"}
MaxStopEntry == 40
StopEntries == (1..MaxStopEntry) \cup {10010, 3000000}
Sides == {"buy", "sell"}

\* Everything but the RiskManager and the call is at rest
AtRest ==
    /\ today = 0
    /\ is_trading = FALSE
    /\ is_running = FALSE
    /\ w3 = FALSE
    /\ positions = [s \in Symbols |-> "none"]
    /\ trades = << >>
    /\ task = [t \in TaskIds |-> NoTask]
    /\ agent_task = 0
    /\ dsc_changes = 0
    /\ fnRet = None

rest == <<today, rm, is_trading, is_running, w3, positions, trades, task,
          agent_task, dsc_changes, fnArgs>>

InitSize ==
    /\ AtRest
    /\ \E c \in SizeCapitals :
          rm = [NewRiskManager(0) EXCEPT !.daily_start_capital = Some(c)]
    /\ fnArgs \in [symbol : SizeSymbols, cc : Confidences, price : SizePrices]

CalcPositionSize ==
    /\ fnRet = None
    /\ fnRet' = Some(calculate_position_size(rm, fnArgs.symbol, fnArgs.cc, fnArgs.price))
    /\ UNCHANGED rest

NextSize == CalcPositionSize

SpecSize == InitSize /\ [][NextSize]_vars

InitStop ==
    /\ AtRest
    /\ rm = NewRiskManager(0)
    /\ fnArgs \in [entry : StopEntries, side : Sides]

CalcStopLoss ==
    /\ fnRet = None
    /\ fnRet' = Some(calculate_stop_loss(rm, fnArgs.entry, fnArgs.side))
    /\ UNCHANGED rest

NextStop == CalcStopLoss

SpecStop == InitStop /\ [][NextStop]_vars

\* A direct call of validate_trade(symbol, shares, price, side), on a
\* RiskManager whose baseline a status request has set
ValidateCapitals == {100, 10000}
ValidateShares == {100, 167, 5000, 10000}
ValidatePrices == {100, 30000}
ValidatePcts == {5, 100, 150}

InitValidate ==
    /\ today \in MetricsDays
    /\ is_trading = FALSE
    /\ is_running = FALSE
    /\ w3 = FALSE
    /\ positions = [s \in Symbols |-> "none"]
    /\ trades = << >>
    /\ task = [t \in TaskIds |-> NoTask]
    /\ agent_task = 0
    /\ dsc_changes = 0
    /\ fnRet = None
    /\ \E c \in ValidateCapitals, p \in MetricsPnls, m \in ValidatePcts :
          rm = [NewRiskManager(0) EXCEPT !.daily_start_capital = Some(c),
                                         !.daily_pnl = p,
                                         !.max_position_size_pct = m]
    /\ fnArgs \in [shares : ValidateShares, price : ValidatePrices, side : Sides]

ValidateTrade ==
    /\ fnRet = None
    /\ \E v \in {validate_trade(rm, today, fnArgs.shares, fnArgs.price, fnArgs.side)} :
          /\ rm' = v.rm /\ Track(v.rm)
          /\ fnRet' = Some(v)
    /\ UNCHANGED <<today, is_trading, is_running, w3, positions, trades, task,
                   agent_task, fnArgs>>

NextValidate == ValidateTrade

SpecValidate == InitValidate /\ [][NextValidate]_vars

\* Direct calls, one after the other, of reset_daily_limits(), of
\* can_trade() and of get_risk_metrics(current_equity=...).  fnRet collects
\* call by call the RiskManager before the call, the one after it, the
\* exception that left it and, for a metrics query, the dict returned.
ResetEquities == {None, Some(9700)}

InitReset ==
    /\ today \in MetricsDays
    /\ is_trading = FALSE
    /\ is_running = FALSE
    /\ w3 = FALSE
    /\ positions = [s \in Symbols |-> "none"]
    /\ trades = << >>
    /\ task = [t \in TaskIds |-> NoTask]
    /\ agent_task = 0
    /\ dsc_changes = 0
    /\ \E b \in MetricsBaselines, p \in MetricsPnls :
          rm = [NewRiskManager(0) EXCEPT !.daily_start_capital = b,
                                         !.daily_pnl = p]
    /\ fnArgs = None
    /\ fnRet = << >>

Called(kind, equity, post, exc, returned) ==
    /\ Len(fnRet) < MaxCalls
    /\ rm' = post /\ Track(post)
    /\ fnRet' = Append(fnRet, [kind |-> kind, equity |-> equity, pre |-> rm,
                               post |-> post, exc |-> exc,
                               returned |-> returned])
    /\ UNCHANGED <<today, is_trading, is_running, w3, positions, trades, task,
                   agent_task, fnArgs>>

CallReset ==
    Called("reset", None, reset_daily_limits(rm, today), "none", None)

CallCanTrade ==
    Called("can_trade", None, can_trade(rm, today).rm,
           can_trade(rm, today).exc,
           IF can_trade(rm, today).exc = "none"
           THEN Some(can_trade(rm, today).allowed) ELSE None)

CallMetrics ==
    \E equity \in ResetEquities :
        Called("metrics", equity,
               get_risk_metrics(rm, today, None, equity).rm,
               get_risk_metrics(rm, today, None, equity).exc,
               metrics_returned(rm, today, None, equity))

NextReset == CallReset \/ CallCanTrade \/ CallMetrics

SpecReset == InitReset /\ [][NextReset]_vars

(***************************************************************************)
(* The claims                                                              *)
(***************************************************************************)
\* Every call execute_trade can get in the current state
TradeCalls ==
    [symbol : Symbols, signal : Signals, cc : ManualConfidences,
     price : Quotes, gw_ok : BOOLEAN]

TradeResult(c) ==
    execute_trade(rm, is_trading, today, c.symbol, c.signal, c.cc, c.price, c.gw_ok)

\* can_trade() is false in the current state
GateClosed == GateOf(can_trade(rm, today)) = "closed"

\* A step of task t's loop
StepOf(t) == task'[t].pc # task[t].pc \/ task'[t].idx # task[t].idx

Has(log, e) == \E i \in DOMAIN log : log[i] = e

\* C1: whenever a baseline exists, can_trade() returns a pair, and it returns
\* false exactly when the daily loss percentage is at or over the limit
\* (the boundary closes the gate).
C1_GateDecides ==
    ~IsNone(rm.daily_start_capital) =>
        LET g == can_trade(rm, today)
        IN  /\ g.exc = "none"
            /\ g.allowed <=> ~LossLimitReached(g.rm)
            /\ g.reason = IF g.allowed THEN "Trading allowed"
                          ELSE "Daily loss limit reached"

\* C2 as stated: a cycle whose gate check fails submits nothing, and while
\* can_trade() is false execute_trade returns 'rejected' with the gate's
\* reason and does not call submit_order.
C2_AlwaysRejected ==
    /\ \A t \in TaskIds : Has(task[t].log, "gate_closed") => ~Has(task[t].log, "submit")
    /\ GateClosed =>
          \A c \in TradeCalls :
              LET res == TradeResult(c)
              IN  /\ ~res.submit_called
                  /\ res.status = "rejected"
                  /\ res.message = "Daily loss limit reached"

\* while can_trade() is false: what a cycle and execute_trade do
C2_ClosedState ==
    /\ \A t \in TaskIds : Has(task[t].log, "gate_closed") => ~Has(task[t].log, "submit")
    /\ GateClosed =>
          \A c \in TradeCalls :
              LET res == TradeResult(c)
                  early == \/ ~is_trading
                           \/ c.signal = "Hold"
                           \/ IsNone(c.price)
                           \/ calculate_position_size(rm, c.symbol, c.cc,
                                                      Val(c.price)).shares = 0
              IN  /\ ~res.submit_called
                  /\ early => res.status \in {"error", "skipped"}
                  /\ ~early => /\ res.status = "rejected"
                               /\ res.message = "Daily loss limit reached"

\* an order is accepted only in a state where can_trade() is true
C2_AcceptedStep ==
    Len(trades') > Len(trades) => GateOf(can_trade(rm, today)) = "open"

\* C2, amended: no order is submitted while can_trade() is false: a cycle
\* whose gate check fails submits nothing, an order is accepted only in a
\* state where the gate is open, and execute_trade never calls submit_order;
\* it returns 'rejected' with the gate's reason when the call reaches the
\* validator, and 'error' or 'skipped' when it returns earlier (switch off,
\* Hold, no price, zero size).
C2_NoOrderWhileClosed == [](C2_ClosedState) /\ [][C2_AcceptedStep]_vars

C2_Witness ==
    /\ GateClosed
    /\ is_trading
    /\ \E t \in TaskIds : task[t].pc = "sleep" /\ Has(task[t].log, "gate_closed")
    /\ \E c \in TradeCalls : TradeResult(c).status = "rejected"

\* The order of a cycle's events: closes, rebalance, gate, submissions
Rank(e) ==
    CASE e = "close" -> 1
      [] e = "rebalance" -> 2
      [] e \in {"gate_open", "gate_closed", "gate_fault"} -> 3
      [] e \in {"swap", "submit"} -> 4

CycleOrdered ==
    \A t \in TaskIds :
        LET log == task[t].log
        IN  /\ \A i, j \in DOMAIN log : i < j => Rank(log[i]) =< Rank(log[j])
            /\ Has(log, "submit") => Has(log, "gate_open") /\ Has(log, "rebalance")
            /\ task[t].pc \in {"gate", "asset"} => Has(log, "rebalance")

\* C3 as stated: a cycle's closes precede its rebalance, its gate check and
\* its submissions, and a cycle whose monitor closes realise losses that take
\* the daily loss to the limit submits no order.
C3_LossCycleSubmitsNothing ==
    /\ CycleOrdered
    /\ \A t \in TaskIds : task[t].loss_hit => ~Has(task[t].log, "submit")

\* the gate check of a cycle whose monitor closes took the daily loss to the
\* limit ends the cycle, when the loss is still on the books at the check
\* and no day reset is pending
C3_GateStep ==
    \A t \in TaskIds :
        ( /\ task[t].pc = "gate" /\ StepOf(t)
          /\ task[t].loss_hit
          /\ LossLimitReached(rm)
          /\ today = rm.last_reset_date )
        => /\ task'[t].pc = "sleep"
           /\ trades' = trades

\* C3, amended: a cycle's closes precede its rebalance, its gate check and
\* its submissions; a cycle whose monitor closes took the daily loss to the
\* limit submits no order provided the loss is still recorded when the gate
\* is checked and that check does not reset the day.
C3_OrderedCycle == [](CycleOrdered) /\ [][C3_GateStep]_vars

C3_Witness ==
    \E t \in TaskIds :
        /\ task[t].loss_hit
        /\ task[t].pc = "sleep"
        /\ task[t].log = <<"close", "rebalance", "gate_closed">>

\* C4: the position value calculate_position_size returns is at most
\* capital * max_position_size_pct / 100 (value in 1e-4 dollars).
C4_ValueWithinCap ==
    ~IsNone(fnRet) =>
        Val(fnRet).position_value * 100 =<
            get_current_capital(rm) * rm.max_position_size_pct * SHARE_SCALE

\* C5: every order execute_trade hands to submit_order, buy or sell, has a
\* position value of at most capital * max_position_size_pct / 100.
C5_SubmittedWithinCap ==
    \A c \in TradeCalls :
        LET res == TradeResult(c)
        IN  res.submit_called =>
                res.position_value * 100 =<
                    res.capital * rm.max_position_size_pct * SHARE_SCALE

\* C6: the Kelly fraction is in [0, 0.25], is 0 for every confidence at or
\* below 0.4 and 0.25 for every confidence at or above 0.55 (the fraction in
\* 1/300, the confidence in hundredths).
C6_KellyRange ==
    ~IsNone(fnRet) =>
        LET k == Val(fnRet).kelly
        IN  /\ 0 =< k /\ k =< 75
            /\ fnArgs.cc =< 40 => k = 0
            /\ fnArgs.cc >= 55 => k = 75

C6_Witness ==
    /\ ~IsNone(fnRet)
    /\ fnArgs.cc = 55
    /\ Val(fnRet).kelly = 75

\* C7 as stated: daily_start_capital changes only in a step in which the
\* current date is later than last_reset_date.
C7_ChangeOnlyOnNewDay ==
    [][rm'.daily_start_capital # rm.daily_start_capital
          => today > rm.last_reset_date]_vars

\* a change of the baseline needs a later date or an unset baseline
C7_ChangeStep ==
    rm'.daily_start_capital # rm.daily_start_capital
        => today > rm.last_reset_date \/ IsNone(rm.daily_start_capital)

\* C7, amended: daily_start_capital changes in at most one step per calendar
\* day, and only in a step in which the current date is later than
\* last_reset_date or the baseline was still unset.
C7_OneChangePerDay == [](dsc_changes =< 1) /\ [][C7_ChangeStep]_vars

C7_Witness ==
    /\ today > 0
    /\ rm.last_reset_date = today
    /\ dsc_changes = 1
    /\ rm.daily_pnl # 0

\* C8: the stop price is strictly below the entry for a buy, strictly above
\* it for a sell, and its distance from the entry is max_stop_loss_pct
\* percent of the entry (prices in cents).
C8_StopBeyondEntry ==
    ~IsNone(fnRet) =>
        LET entry == fnArgs.entry
            stop == Val(fnRet)
        IN  /\ fnArgs.side = "buy" => stop < entry
            /\ fnArgs.side = "sell" => stop > entry
            /\ fnArgs.side = "buy" => (entry - stop) * 100 = entry * rm.max_stop_loss_pct
            /\ fnArgs.side = "sell" => (stop - entry) * 100 = entry * rm.max_stop_loss_pct

\* a task ends only after stop() was called
C9_EndsOnlyOnStop ==
    \A t \in TaskIds : task[t].pc = "done" => task[t].stop_seen

\* the step in which a cycle faults leaves the running flag alone
C9_FaultStep ==
    \A t \in TaskIds :
        (task[t].pc \in MidCycle /\ task'[t].pc = "backoff") => is_running' = is_running

\* C9: a fault inside a cycle never ends the loop: the running flag is
\* untouched by the fault, the loop backs off and begins a later cycle, and
\* it ends only after an explicit stop().
C9_LoopSurvivesFault ==
    /\ [](C9_EndsOnlyOnStop)
    /\ [][C9_FaultStep]_vars
    /\ \A t \in TaskIds :
          (task[t].pc = "backoff") ~> (task[t].pc = "monitor" \/ task[t].stop_seen)

C9_Witness ==
    \E t \in TaskIds :
        /\ task[t].after_fault
        /\ task[t].pc = "monitor"
        /\ is_running
        /\ ~task[t].stop_seen

\* C10: a failure while one asset is processed does not abort the cycle:
\* while the loop is running, the step of an asset that is not the last one
\* is followed by the next asset.
C10_AssetStep ==
    \A t \in TaskIds :
        ( /\ task[t].pc = "asset" /\ StepOf(t)
          /\ is_running
          /\ task[t].idx < Len(WatchList) )
        => /\ task'[t].pc = "asset"
           /\ task'[t].idx = task[t].idx + 1

C10_CycleGoesOn == [][C10_AssetStep]_vars

\* The tasks that are in the loop of start() and not cancelled
LiveLoops ==
    {t \in TaskIds : task[t].pc \in MidCycle \cup {"sleep", "backoff"}
                     /\ ~task[t].cancel}

\* C11: a start request never leads to a second loop: at most one task is
\* executing cycles at any time.
C11_OneLoop == Cardinality(LiveLoops) =< 1

\* a step of a task after stop() was called during a cycle: no asset is
\* traded and no cycle begins
C12_TaskStep ==
    \A t \in TaskIds :
        (task[t].stop_mid /\ StepOf(t)) =>
            /\ task'[t].pc # "monitor"
            /\ task[t].pc = "asset" =>
                  /\ task'[t].pc = "sleep"
                  /\ trades' = trades /\ positions' = positions /\ rm' = rm

\* the stop request itself undoes nothing
C12_StopRequest ==
    (\E t \in TaskIds : task'[t].stop_seen /\ ~task[t].stop_seen) =>
        trades' = trades /\ positions' = positions /\ rm' = rm

AsLoop(i) ==
    run_cycle(fnRet[i].pre, [Env EXCEPT !.running = TRUE], fnArgs)

Range(seq) == {seq[i] : i \in DOMAIN seq}

\* The size execute_trade computes for symbol s in call i of run_cycle
CallSize(i, s) ==
    calculate_position_size(fnRet[i].out.end.rm, s,
                            decide(fnArgs.sentiment[s], "Buy").confidence,
                            Val(fnArgs.price))

\* C14: of two calls of run_cycle() with the same external answers, the
\* second closes no position the first one closed, and neither submits an
\* order for an asset whose computed size is zero.
C14_NoSecondClose ==
    /\ Len(fnRet) = 2 => fnRet[1].out.closed \cap fnRet[2].out.closed = {}
    /\ \A i \in DOMAIN fnRet :
          \A s \in Range(fnRet[i].out.end.submits) : CallSize(i, s).shares # 0

\* the first call closed a position, the second ran the monitor again, and
\* in the first an asset of size zero was passed over
C14_Witness ==
    /\ Len(fnRet) = 2
    /\ fnRet[1].out.closed # {}
    /\ fnArgs.pos_ok /\ \A s \in Symbols : fnArgs.gw_close[s]
    /\ fnRet[2].out.closed = {}
    /\ is_running /\ is_trading /\ ~IsNone(fnArgs.price)
    /\ fnRet[1].out.end.exc = "none"
    /\ \E s \in Symbols :
          /\ decide(fnArgs.sentiment[s], "Buy").signal # "Hold"
          /\ CallSize(1, s).shares = 0
          /\ s \notin Range(fnRet[1].out.end.submits)

\* The positions the venue reported to the monitor pass of call i
Reported(i) == Range(get_positions(fnRet[i].pre.positions, fnArgs.pos_ok))

\* unrealized P&L percent of s as reported to call i
PnlPct(i, s) == PosData(fnRet[i].pre.positions[s]).pnl_pct

\* C15: a monitor pass requests a close for exactly the reported positions
\* whose unrealized P&L percent is <= -max_stop_loss_pct or >= 10, and for
\* each of them once.
C15_ClosesBreaching ==
    \A i \in DOMAIN fnRet :
        LET asked == fnRet[i].out.asked
        IN  /\ Range(asked) =
                  {s \in Reported(i) :
                      \/ PnlPct(i, s) =< -fnRet[i].pre.rm.max_stop_loss_pct
                      \/ PnlPct(i, s) >= 10}
            /\ \A j, k \in DOMAIN asked : j # k => asked[j] # asked[k]

RECURSIVE SumSeq(_)
SumSeq(q) == IF q = << >> THEN 0 ELSE Head(q) + SumSeq(Tail(q))

RECURSIVE CloseTrades(_, _)
CloseTrades(ledger, q) ==
    IF q = << >> THEN ledger ELSE CloseTrades(close_trade(ledger, Head(q)), Tail(q))

\* The symbols the monitor pass of call i closed, in the order of the pass
ClosedSeq(i) == SelectSeq(WatchList, LAMBDA s : s \in fnRet[i].out.closed)

ClosedPnl(i) ==
    SumSeq([k \in DOMAIN ClosedSeq(i) |->
               PosData(fnRet[i].pre.positions[ClosedSeq(i)[k]]).pnl])

\* C16: in a monitor pass every close request that succeeds removes the
\* symbol from open_positions, adds the position's pnl to daily_pnl and has
\* close_trade mark the symbol's trade in the ledger; a request that fails
\* leaves open_positions, daily_pnl and the ledger as they were.
C16_CloseRecorded ==
    \A i \in DOMAIN fnRet :
        LET pre == fnRet[i].pre
            m == fnRet[i].out.monitored
            closed == fnRet[i].out.closed
        IN  /\ closed \subseteq Range(fnRet[i].out.asked)
            /\ DOMAIN m.rm.open_positions = DOMAIN pre.rm.open_positions \ closed
            /\ \A s \in DOMAIN m.rm.open_positions :
                  m.rm.open_positions[s] = pre.rm.open_positions[s]
            /\ m.rm.daily_pnl = pre.rm.daily_pnl + ClosedPnl(i)
            /\ m.trades = CloseTrades(pre.trades, ClosedSeq(i))
            /\ closed = {} => m.rm = pre.rm /\ m.trades = pre.trades

\* one pass with a close that succeeded and a close that failed
C16_Witness ==
    /\ Len(fnRet) = 1
    /\ fnRet[1].out.asked = WatchList
    /\ fnRet[1].out.closed = {"BTC/USD"}
    /\ "BTC/USD" \notin DOMAIN rm.open_positions
    /\ "ETH/USD" \in DOMAIN rm.open_positions
    /\ fnRet[1].out.monitored.rm.daily_pnl = -200
    /\ trades[1].status = "closed" /\ trades[2].status = "open"

\* the pass changes neither the venue, the ledger nor the RiskManager
C17_Frame == positions' = positions /\ trades' = trades /\ rm' = rm

\* C17: the rebalance pass is advisory only: whatever the portfolio, also an
\* overweight one, it places no order, closes no position and leaves the
\* RiskManager unchanged; with a total portfolio value of 0 it returns
\* without an advisory.
C17_AdvisoryOnly ==
    /\ [][C17_Frame]_vars
    /\ []((~IsNone(fnRet) /\ fnArgs.total_value = 0) => Val(fnRet) = "nothing")

C17_Witness ==
    /\ fnRet = Some("stock_overweight")
    /\ \E s \in Symbols : positions[s] # "none"
    /\ DOMAIN rm.open_positions # {}

\* The market value reported for the watch-list symbols, in 1e-4 dollars
WatchListValue ==
    market_value_of(get_positions(positions, fnArgs.pos_ok), positions, Symbols)

\* C18: positions in the watch-list symbols BTC/USD and ETH/USD count toward
\* the crypto allocation: when they are more than 55% of the portfolio value
\* the pass gives the crypto-overweight advisory.
C18_CryptoCounted ==
    ( /\ ~IsNone(fnRet)
      /\ fnArgs.total_value > 0
      /\ WatchListValue > CRYPTO_MAX_PCT * fnArgs.total_value * (SHARE_SCALE \div 100) )
    => Val(fnRet) = "crypto_overweight"

\* C19: after get_risk_metrics(live_positions, current_equity) the
\* RiskManager equals the live data (current capital = current_equity,
\* daily_pnl = current_equity - daily_start_capital, open_positions = the
\* map of the live positions' market values) and the call returns a dict
\* with these values.
C19_Reconciled ==
    ~IsNone(fnRet) =>
        /\ get_current_capital(rm) = fnArgs.equity
        /\ rm.daily_pnl = fnArgs.equity - Val(rm.daily_start_capital)
        /\ rm.open_positions = LiveArg
        /\ ~IsNone(Val(fnRet).returned)
        /\ Val(Val(fnRet).returned).current_capital = fnArgs.equity
        /\ Val(Val(fnRet).returned).daily_pnl = rm.daily_pnl
        /\ Val(Val(fnRet).returned).open_positions = Cardinality(DOMAIN LiveArg)

\* C20: a metrics query that runs concurrently with a mutation of the
\* RiskManager returns a consistent snapshot: the dict it returns is the one
\* the query returns when it runs wholly before or wholly after the mutation.
SerialSnapshots ==
    { metrics_returned(fnArgs.rm0, today, Some(fnArgs.live), Some(fnArgs.equity)),
      metrics_returned(rm_close_position(fnArgs.rm0, fnArgs.symbol, fnArgs.pnl),
                       today, Some(fnArgs.live), Some(fnArgs.equity)) }

C20_ConsistentSnapshot ==
    ~IsNone(fnRet.snapshot) => fnRet.snapshot \in SerialSnapshots

\* C21: a call into the venue or the price feed that does not return is
\* abandoned after a bounded wait: the task does not stay inside the call,
\* it goes on to the next asset or to the end of the cycle.
C21_CallAbandoned ==
    \A t \in TaskIds : (task[t].pc = "calling") ~> (task[t].pc # "calling")

\* The status the order of execute_trade's tests gives call c
StatusInOrder(c) ==
    IF ~is_trading THEN "error"
    ELSE IF c.signal = "Hold" THEN "skipped"
    ELSE IF IsNone(c.price) THEN "error"
    ELSE IF calculate_position_size(rm, c.symbol, c.cc, Val(c.price)).shares = 0
    THEN "skipped"
    ELSE IF ~validate_trade(rm, today,
                            calculate_position_size(rm, c.symbol, c.cc,
                                                    Val(c.price)).shares,
                            Val(c.price), SideOf(c.signal)).valid
    THEN "rejected"
    ELSE IF ~c.gw_ok THEN "error"
    ELSE "success"

\* C22: every call of execute_trade returns a result whose status is one of
\* success, skipped, rejected, error, decided in the order: switch off ->
\* error, Hold -> skipped, no price -> error, zero size -> skipped, validator
\* rejection -> rejected, submission fault -> error, otherwise success; the
\* status is success exactly when submit_order returned.
C22_ClosedStatus ==
    \A c \in TradeCalls :
        /\ TradeResult(c).status \in {"success", "skipped", "rejected", "error"}
        /\ TradeResult(c).status = StatusInOrder(c)
        /\ TradeResult(c).status = "success" <=>
               (TradeResult(c).submit_called /\ c.gw_ok)

\* C23: validate_trade applies its checks in order and stops at the first
\* that fails: (a) a closed gate rejects with the gate's reason, (b) a buy
\* whose value is over max_position_size_pct percent of the capital is
\* rejected, (c) a value over the capital is rejected as insufficient
\* capital, for a buy and for a sell; otherwise the trade is accepted.
C23_ChecksInOrder ==
    ~IsNone(fnRet) =>
        /\ Val(fnRet).exc = "none"
        /\ IF ~can_trade(rm, today).allowed
           THEN /\ ~Val(fnRet).valid
                /\ Val(fnRet).reason = can_trade(rm, today).reason
           ELSE IF /\ fnArgs.side = "buy"
                   /\ PositionPctGT(fnArgs.shares * fnArgs.price,
                                    get_current_capital(rm), rm.max_position_size_pct)
           THEN /\ ~Val(fnRet).valid
                /\ Val(fnRet).reason = "Position size exceeds limit"
           ELSE IF fnArgs.shares * fnArgs.price > get_current_capital(rm) * SHARE_SCALE
           THEN /\ ~Val(fnRet).valid
                /\ Val(fnRet).reason = "Insufficient capital"
           ELSE Val(fnRet).valid

\* The symbols a call of run_cycle called submit_order for
Submits(i) == fnRet[i].out.end.submits

SubmittedFor(i, s) == \E j \in DOMAIN Submits(i) : Submits(i)[j] = s

\* C24: within one cycle submit_order is called at most once per asset of
\* the watch list; when the venue refuses the order of an asset it is not
\* submitted again in that cycle, the cycle does not fault and the next
\* asset is processed (its order, given the same signal, is submitted too).
C24_SubmitOncePerAsset ==
    \A i \in DOMAIN fnRet :
        /\ \A j, k \in DOMAIN Submits(i) : j # k => Submits(i)[j] # Submits(i)[k]
        /\ (~fnArgs.gw_ok /\ Submits(i) # << >>) => fnRet[i].out.end.exc = "none"
        /\ ( /\ ~fnArgs.gw_ok
             /\ SubmittedFor(i, WatchList[1])
             /\ fnArgs.sentiment[WatchList[2]] = fnArgs.sentiment[WatchList[1]] )
           => SubmittedFor(i, WatchList[2])

C24_Witness ==
    /\ Len(fnRet) = MaxCalls
    /\ ~fnArgs.gw_ok
    /\ Submits(1) = WatchList
    /\ fnRet[1].out.end.trades = fnRet[1].pre.trades

Unsuccessful == {"error", "skipped", "rejected"}

\* a close request that fails leaves the RiskManager as it was
FailedCloseFrame ==
    \A sym \in Symbols, gw_ok \in BOOLEAN :
        ex_close_position(rm, positions, sym, gw_ok).status # "success"
            => ex_close_position(rm, positions, sym, gw_ok).rm = rm

\* The entry of symbol sym in open_positions (None: no entry)
Entry(r, sym) ==
    IF sym \in DOMAIN r.open_positions THEN Some(r.open_positions[sym]) ELSE None

\* In this step an order for sym was accepted, or a close of sym succeeded
OrderAccepted(sym) ==
    /\ Len(trades') = Len(trades) + 1
    /\ trades'[Len(trades')].symbol = sym
    /\ ~IsNone(Entry(rm', sym))

CloseSucceeded(sym) ==
    /\ positions[sym] # "none"
    /\ positions'[sym] = "none"
    /\ IsNone(Entry(rm', sym))

\* C25 as stated: an entry of open_positions is written only by an accepted
\* order for its symbol and removed only by a successful close of it, and an
\* execute_trade that ends in error, skipped or rejected, or a close that
\* fails, leaves open_positions and daily_pnl unchanged.
C25_FailedFrame ==
    /\ FailedCloseFrame
    /\ \A c \in TradeCalls :
          TradeResult(c).status \in Unsuccessful
              => /\ TradeResult(c).rm.open_positions = rm.open_positions
                 /\ TradeResult(c).rm.daily_pnl = rm.daily_pnl

C25_EntryStep ==
    \A sym \in Symbols :
        Entry(rm', sym) # Entry(rm, sym) => OrderAccepted(sym) \/ CloseSucceeded(sym)

C25_OnlyByOrderOrClose == [](C25_FailedFrame) /\ [][C25_EntryStep]_vars

\* an unsuccessful execute_trade leaves the RiskManager as it was, or as the
\* day reset of the validator's gate check leaves it
C25_FailedFrameReset ==
    /\ FailedCloseFrame
    /\ \A c \in TradeCalls :
          TradeResult(c).status \in Unsuccessful
              => TradeResult(c).rm \in {rm, reset_daily_limits(rm, today)}

C25_EntryStepSynced ==
    \A sym \in Symbols :
        Entry(rm', sym) # Entry(rm, sym)
            => OrderAccepted(sym) \/ CloseSucceeded(sym) \/ PortfolioStatus

\* C25, amended: apart from the reconciliation of a status request, which
\* replaces open_positions by the live positions, an entry is written only
\* by an accepted order for its symbol and removed only by a successful
\* close of it; an execute_trade that ends in error, skipped or rejected, or
\* a close that fails, leaves open_positions unchanged, and leaves daily_pnl
\* unchanged unless the validator's gate check performs the day reset.
C25_OnlyByOrderCloseOrSync == [](C25_FailedFrameReset) /\ [][C25_EntryStepSynced]_vars

C25_Witness ==
    /\ is_trading
    /\ today > rm.last_reset_date
    /\ rm.daily_pnl # 0
    /\ \E c \in TradeCalls : /\ TradeResult(c).status = "error"
                             /\ TradeResult(c).submit_called
                             /\ TradeResult(c).rm.daily_pnl = 0
                             /\ TradeResult(c).rm.open_positions = rm.open_positions

\* C26: every value in open_positions is non-negative, whether an order
\* wrote it or the reconciliation with the positions the venue reports,
\* short positions included.
C26_ValuesNonNegative ==
    \A sym \in DOMAIN rm.open_positions : rm.open_positions[sym] >= 0

\* What the reset makes of RiskManager r on date now
ResetOn(r, now) ==
    IF now > r.last_reset_date
    THEN [r EXCEPT !.daily_start_capital = Some(get_current_capital(r)),
                   !.daily_pnl = 0,
                   !.last_reset_date = now]
    ELSE r

\* C27: the reset changes the state only on a date later than
\* last_reset_date, and then sets daily_start_capital to the current capital
\* just before it, daily_pnl to 0 and last_reset_date to today; a second
\* call on the same date changes nothing; every gate check and every metrics
\* query begins with it: the gate's answer and the metrics returned are
\* those of the reset state.
C27_ResetFirst ==
    \A i \in DOMAIN fnRet :
        /\ fnRet[i].kind = "reset" =>
              /\ fnRet[i].post = ResetOn(fnRet[i].pre, today)
              /\ ResetOn(fnRet[i].post, today) = fnRet[i].post
        /\ fnRet[i].kind = "can_trade" =>
              /\ fnRet[i].post = ResetOn(fnRet[i].pre, today)
              /\ fnRet[i].exc = can_trade_checked(ResetOn(fnRet[i].pre, today)).exc
        /\ (fnRet[i].kind = "metrics" /\ ~IsNone(fnRet[i].returned)) =>
              /\ fnRet[i].post.last_reset_date = today
              /\ Val(fnRet[i].returned).daily_pnl = fnRet[i].post.daily_pnl
              /\ Val(fnRet[i].returned).daily_loss =
                     Val(fnRet[i].post.daily_start_capital)
                         - get_current_capital(fnRet[i].post)

\* The calls of execute_trade that reach the sizing, for a fractional and for
\* a whole-unit symbol, with confidences on both sides of 0.4
SizedCalls ==
    [symbol : Symbols \cup {"AAPL"}, signal : {"Buy", "Sell"},
     cc : ManualConfidences \cup {40, 41}, price : Quotes \ {None},
     gw_ok : {TRUE}]

SizeOf(c) == calculate_position_size(rm, c.symbol, c.cc, Val(c.price))

\* C28: whenever the computed share count is zero (the Kelly fraction is 0
\* at a confidence at or below 0.4, which gives zero shares of a capital
\* that is not negative; or a capped value below one unit of a whole-unit
\* symbol),
\* calculate_position_size returns (0, 0) and execute_trade returns
\* 'skipped' without calling the validator or submit_order and without
\* changing the RiskManager.
C28_ZeroSizeSkipped ==
    is_trading =>
        \A c \in SizedCalls :
            /\ c.cc =< 40 => SizeOf(c).kelly = 0
            /\ (c.cc =< 40 /\ get_current_capital(rm) >= 0) => SizeOf(c).shares = 0
            /\ SizeOf(c).shares = 0 =>
                  /\ SizeOf(c).position_value = 0
                  /\ TradeResult(c).status = "skipped"
                  /\ ~TradeResult(c).submit_called
                  /\ TradeResult(c).rm = rm

C28_Witness ==
    /\ is_trading
    /\ today > rm.last_reset_date
    /\ ~IsNone(rm.daily_start_capital)
    /\ rm.daily_pnl # 0
    /\ \E c \in SizedCalls : c.cc > 40 /\ c.symbol = "AAPL" /\ SizeOf(c).shares = 0
    /\ \E c \in SizedCalls : c.cc =< 40 /\ c.symbol \in Symbols
                             /\ TradeResult(c).status = "skipped"

\* C29: can_trade() returns a pair and never faults, in the initial state
\* (no baseline yet) and after a reconciliation against an equity of 0
\* included, so the gate check of a cycle never ends in an exception.
C29_GateNeverFaults ==
    /\ can_trade(rm, today).exc = "none"
    /\ \A t \in TaskIds : ~Has(task[t].log, "gate_fault")

\* Symbol sym has an entry in open_positions when call i of run_cycle comes
\* to its assets (after the monitor pass)
EntryAtAssets(i, sym) == sym \in DOMAIN fnRet[i].out.monitored.rm.open_positions

\* C30: while a symbol has an entry in open_positions no further buy order
\* is submitted for it, in any of the consecutive cycles with an unchanged
\* Buy signal, so the entry is the value of the orders submitted since the
\* symbol's last close.
C30_NoBuyWhileOpen ==
    \A i \in DOMAIN fnRet : \A sym \in Symbols :
        (EntryAtAssets(i, sym) /\ fnArgs.sentiment[sym] = "Bullish")
            => ~SubmittedFor(i, sym)

\* In this step, on one date, the gate goes from closed to open
GateReopens ==
    /\ GateClosed
    /\ today' = today
    /\ GateOf(can_trade(rm', today')) = "open"

GainClosed ==
    \E sym \in Symbols : positions[sym] = "gain" /\ positions'[sym] = "none"

C31_ReopenStep == GateReopens => (PortfolioStatus \/ GainClosed)

FirstGateCheck(i) ==
    /\ fnRet[i].kind = "can_trade"
    /\ today > fnRet[1].pre.last_reset_date
    /\ \A j \in 1..(i - 1) : fnRet[j].kind # "can_trade"
    /\ ~IsNone(fnRet[i].post.daily_start_capital)
    /\ Val(fnRet[i].post.daily_start_capital) > 0

\* C32 as stated: with a positive baseline the first can_trade() after the
\* date advances returns true.
C32_FirstCheckOpen ==
    \A i \in DOMAIN fnRet : FirstGateCheck(i) => fnRet[i].returned = Some(TRUE)

\* No metrics query before call i reconciled daily_pnl with a live equity
Unreconciled(i) ==
    \A j \in 1..(i - 1) :
        fnRet[j].kind = "metrics" => IsNone(fnRet[j].equity)

\* C32, amended: with a positive baseline the first can_trade() after the
\* date advances returns true whatever loss the previous day ended with,
\* with daily_start_capital re-based to the capital of the day before and
\* daily_pnl 0, provided no metrics query reconciled daily_pnl with a live
\* equity on the new date before it.
C32_FirstCheckOpenUnreconciled ==
    \A i \in DOMAIN fnRet :
        (FirstGateCheck(i) /\ Unreconciled(i)) =>
            /\ fnRet[i].returned = Some(TRUE)
            /\ fnRet[i].post.daily_pnl = 0
            /\ fnRet[i].post.daily_start_capital =
                   Some(get_current_capital(fnRet[1].pre))

\* the day before ended with the gate closed and the first gate check of the
\* new date answered true
C32_Witness ==
    \E i \in DOMAIN fnRet :
        /\ FirstGateCheck(i) /\ Unreconciled(i)
        /\ fnRet[i].pre.last_reset_date < today
        /\ ~can_trade(fnRet[i].pre, fnRet[i].pre.last_reset_date).allowed
        /\ fnRet[i].returned = Some(TRUE)

\* The metrics queries on record that returned a dict
Snapshots == {i \in DOMAIN fnRet : /\ fnRet[i].kind = "metrics"
                                   /\ ~IsNone(fnRet[i].returned)}

\* C33: in every dict get_risk_metrics returns, with or without live equity
\* and also on the first query after the date advances, the can_trade entry
\* is false exactly when the daily_loss_pct entry is at or over the
\* daily_loss_limit entry.
C33_GateMatchesLoss ==
    \A i \in Snapshots :
        (~metrics_gate(fnRet[i].pre, today, None, fnRet[i].equity))
          <=> PctGE(Val(fnRet[i].returned).daily_loss,
                    metrics_base(fnRet[i].pre, today, fnRet[i].equity),
                    Val(fnRet[i].returned).daily_loss_limit)

\* C34: two close_position calls that run concurrently with realised pnl p1
\* and p2 leave daily_pnl increased by exactly p1 + p2 in every
\* interleaving; no update is lost.
C34_NoLostUpdate ==
    (\A k \in Closers : fnRet.pc[k] = CloserEnd) =>
        rm.daily_pnl = fnArgs.rm0.daily_pnl + fnArgs.pnl[1] + fnArgs.pnl[2]

\* Task t saw a stop request and another task was created by a start request
\* after it
StoppedAndRestarted(t) ==
    /\ task[t].stop_seen
    /\ \E u \in TaskIds : u # t /\ task[u].pc # "none" /\ ~task[u].stop_seen

\* such a task begins no cycle
C35_OldLoopStep ==
    \A t \in TaskIds :
        (StoppedAndRestarted(t) /\ StepOf(t)) => task'[t].pc # "monitor"

\* Task t is inside the loop of start(), in a cycle or in the sleep between
\* two cycles, with no cancellation pending
Cycling(t) ==
    task[t].pc \in MidCycle \cup {"sleep", "backoff"} /\ ~task[t].cancel

\* no two tasks are inside the loop together
C35_Apart == \A t, u \in TaskIds : (t # u /\ Cycling(t)) => ~Cycling(u)

\* C35: after stop() followed by start() the loop instance that ran before
\* the stop executes no further cycle, also when the start comes while it is
\* in its interval sleep, and two loop instances never execute cycles side
\* by side.
C35_OneInstanceAfterRestart == [][C35_OldLoopStep /\ C35_Apart']_vars

\* The events task t's step adds to its cycle's log
Added(t) == SubSeq(task'[t].log, Len(task[t].log) + 1, Len(task'[t].log))

\* an iteration of the asset pass sends a swap only for an asset whose order
\* it also reaches, and reaches the order only with the switch on and the
\* gate open
C36_AssetStep ==
    \A t \in TaskIds :
        (task[t].pc = "asset" /\ StepOf(t)) =>
            /\ Has(Added(t), "swap") => Has(Added(t), "submit")
            /\ Has(Added(t), "submit") =>
                  is_trading /\ GateOf(can_trade(rm, today)) = "open"

\* C36: in the per-asset pass the gateway order and the on-chain swap for an
\* asset happen only after that asset's proposal was priced, sized to a
\* non-zero amount and accepted by the validator in the same pass; an asset
\* that is skipped or rejected causes no external action.
C36_ActionsAfterValidation == [][C36_AssetStep]_vars

\* The ledger's open records of symbol sym
OpenRecords(ledger, sym) ==
    {i \in DOMAIN ledger : ledger[i].symbol = sym /\ ledger[i].status = "open"}

\* a step that closes a position marks the symbol's most recent open record
\* as closed, and no step reopens a closed record
C37_CloseStep ==
    /\ \A sym \in Symbols :
          (positions[sym] # "none" /\ positions'[sym] = "none") =>
              \A i \in OpenRecords(trades, sym) :
                  (\A j \in OpenRecords(trades, sym) : j =< i) =>
                      trades'[i].status = "closed"
    /\ \A i \in DOMAIN trades :
          trades[i].status = "closed" =>
              i \in DOMAIN trades' /\ trades'[i].status = "closed"

\* C37: every successful close of a position, by the risk monitor, by the
\* close request for one symbol or by the close-all request, marks the most
\* recent open ledger record of that symbol as closed, and a closed record
\* never becomes open again.
C37_LedgerFollowsCloses == [][C37_CloseStep]_vars

\* The call returned the 'Insufficient capital' rejection
CapitalRejected ==
    ~IsNone(fnRet) /\ Val(fnRet).exc = "none"
                   /\ Val(fnRet).reason = "Insufficient capital"

\* The call was a buy that passed the gate with a value over the capital
BuyOverCapital ==
    /\ ~IsNone(fnRet) /\ Val(fnRet).exc = "none"
    /\ fnArgs.side = "buy"
    /\ can_trade(rm, today).allowed
    /\ fnArgs.shares * fnArgs.price > get_current_capital(rm) * SHARE_SCALE

\* C38 as stated: 'Insufficient capital' is returned only when
\* max_position_size_pct > 100; for every max_position_size_pct =< 100 a
\* buy whose value exceeds the capital is rejected by the position-size
\* check, and a sell is never rejected for capital.
C38_CapitalCheckDead ==
    /\ CapitalRejected => (rm.max_position_size_pct > 100 /\ fnArgs.side = "buy")
    /\ (BuyOverCapital /\ rm.max_position_size_pct =< 100) =>
          Val(fnRet).reason = "Position size exceeds limit"

\* C38, amended: 'Insufficient capital' is returned only for a buy, and only
\* when max_position_size_pct > 100 or the current capital is negative; with
\* a positive capital and max_position_size_pct =< 100 a buy whose value
\* exceeds the capital is rejected by the position-size check; a sell is
\* never rejected for capital.
C38_CapitalCheckDeadWhenSolvent ==
    /\ CapitalRejected =>
          /\ fnArgs.side = "buy"
          /\ rm.max_position_size_pct > 100 \/ get_current_capital(rm) < 0
    /\ (BuyOverCapital /\ rm.max_position_size_pct =< 100
                       /\ get_current_capital(rm) > 0) =>
          Val(fnRet).reason = "Position size exceeds limit"

\* a buy over a positive capital that passed the size check of a limit over
\* 100% and was rejected for capital
C38_Witness ==
    /\ CapitalRejected /\ BuyOverCapital
    /\ rm.max_position_size_pct > 100
    /\ get_current_capital(rm) > 0
====
